---- MODULE Spec2Model ----
(***************************************************************************)
(* A model of the SCTP association of aiortc/rtcsctptransport.py: two      *)
(* RTCSctpTransport objects (one per ICE role) joined by a lossless,       *)
(* in-order datagram channel.  One step of the model is the code one       *)
(* coroutine runs between two suspension points (a transport receive, a    *)
(* transport send, a wait for the closed event).                           *)
(***************************************************************************)
EXTENDS Integers, Sequences, FiniteSets, TLC

VARIABLES
    assoc,        \* per peer: the fields of RTCSctpTransport
    run,          \* per peer: the position of the __run coroutine and its locals
    last,         \* per peer: what __run did with the datagram it received last:
                  \* the ValueError, "assert", "bad tag", or the type of the
                  \* first chunk of the packet it handled
    stopper,      \* per peer: the position of a stop() call
    aborter,      \* per peer: the position of an _abort() call
    net,          \* per peer: datagrams queued for transport.data.recv()
    dtls_closed,  \* per peer: the closed event of the DTLS session underneath
    now,          \* what _get_timestamp() returns
    injected,     \* datagrams put on the channel by a third party so far
    log,          \* history: the chunk types sent by the two peers, in order, or
                  \* the states in which _abort() was called
    upper,        \* per peer, history: what the transport handed to the layer
                  \* above (calls of _receive and emitted events), in order
    tasks,        \* per peer: the _data_channel_flush and _data_channel_send
                  \* coroutines that have not ended, and their positions
    requested,    \* per peer, history: the values _data_channel_send was called
                  \* with, and the indexes of their channels
    inbound,      \* an InboundStream on its own
    popped,       \* history: the stream before the pop_messages() call that
                  \* was the last step, and the messages the call yielded
    framed,       \* history: the value framed last, its payload, and what
                  \* the receiver made of the payload
    coded,        \* history: the byte string or the packet coded last, and
                  \* the results of the decoder and of the encoder
    compared,     \* history: the two serial numbers compared last, and the
                  \* results of the comparisons
    session       \* a DtlsSrtpSession on its own: its fields, the positions of
                  \* its coroutines, and what it wrote to the transport

vars == <<assoc, run, last, stopper, aborter, net, dtls_closed, now, injected, log,
          upper, tasks, requested, inbound, popped, framed, coded, compared,
          session>>

-----------------------------------------------------------------------------
(* Bounds of the model *)

MaxInject == 1
MaxStopCalls == 1
MaxDrift == 2
\* an InboundStream on its own buffers at most MaxBuffered chunks, with stream
\* sequence numbers up to MaxSeq
MaxBuffered == 3
MaxSeq == 1
\* the values framed on their own have at most MaxFramed characters or bytes
MaxFramed == 2
\* the packets coded on their own have at most MaxCoded chunks
MaxCoded == 2
\* channels are created on a transport while it has less than MaxChannels
\* RTCDataChannel objects; where the allocation of ids is looked at, each peer
\* creates at most MaxOpens channels
MaxChannels == 1
MaxOpens == 2
\* _data_channel_send is called at most MaxSends times in all
MaxSends == 2
\* _send cuts user data every UserDataBytes bytes in the model (1200 in the
\* program); every DCEP message of the model is shorter
UserDataBytes == 16
\* connect() and close() of the DTLS session on its own are called at most
\* MaxConnects and MaxCloses times; its handshake gets at most MaxRounds
\* datagrams and its data pump at most MaxRecords
MaxConnects == 2
MaxCloses == 2
MaxRounds == 2
MaxRecords == 1
\* a third party sends at most MaxData packets of DATA chunks to the
\* established associations
MaxData == 2
\* channels are created, before and after the handshake, on a transport that
\* has less than MaxQueued
MaxQueued == 1
\* TSNs are TsnBits wide in the model (32 in the program): the model checker's
\* integers end at 2^31 - 1
TsnBits == 4

-----------------------------------------------------------------------------
(* Program constants *)

COOKIE_LENGTH == 24
COOKIE_LIFETIME == 60
SCTP_CAUSE_STALE_COOKIE == 3
STATE_COOKIE == 7
SCTP_TSN_MODULO == 2 ^ TsnBits
SCTP_SEQ_MODULO == 65536
USERDATA_MAX_LENGTH == UserDataBytes
DATA_CHANNEL_RELIABLE == 0
SCTP_DATA_LAST_FRAG == 1
SCTP_DATA_FIRST_FRAG == 2
DATA_CHANNEL_ACK == 2
DATA_CHANNEL_OPEN == 3
WEBRTC_DCEP == 50
WEBRTC_STRING == 51
WEBRTC_BINARY == 53
WEBRTC_STRING_EMPTY == 56
WEBRTC_BINARY_EMPTY == 57
None == -1

Peers == {"client", "server"}

Other(p) == IF p = "client" THEN "server" ELSE "client"

is_server == [p \in Peers |-> p = "server"]

local_verification_tag == [client |-> 1, server |-> 2]

initial_local_tsn == [client |-> 0, server |-> SCTP_TSN_MODULO - 1]

hmac_key == [client |-> "kc", server |-> "ks"]

-----------------------------------------------------------------------------
(* Byte strings, as far as the association looks into them: the length,    *)
(* the first four bytes read as a big-endian u32, and the rest.            *)

Bytes(l, s, m) == [len |-> l, stamp |-> s, mac |-> m]

NoBytes == Bytes(0, 0, <<>>)

Zeros(n) == Bytes(n, 0, <<>>)

\* hmac.new(key, msg, 'sha1').digest(): a 20-byte value that determines key and msg
hmac_sha1(key, msg) == <<key, msg>>

mint_cookie(key, t) == Bytes(4 + 20, t, hmac_sha1(key, t))

\* The byte strings of user data and the strings of labels and messages are
\* kept whole: a byte string is the sequence of its bytes, a string the
\* sequence of its code points.

\* b[from:to] of a byte string or a list
Slice(b, from, to) ==
    SubSeq(b, from + 1, IF to < Len(b) THEN to ELSE Len(b))

\* pack('!H', n)
pack_H(n) == <<(n \div 256) % 256, n % 256>>

\* unpack('!H', b[at:at + 2])
unpack_H(b, at) == (b[at + 1] * 256) + b[at + 2]

\* a code point that str.encode('utf8') takes: not a surrogate
encodable(c) == ~(c >= 55296 /\ c <= 57343)

\* the UTF-8 bytes of one code point
utf8_of(c) ==
    IF c < 128 THEN <<c>>
    ELSE IF c < 2048 THEN <<192 + (c \div 64), 128 + (c % 64)>>
    ELSE IF c < 65536
    THEN <<224 + (c \div 4096), 128 + ((c \div 64) % 64), 128 + (c % 64)>>
    ELSE <<240 + (c \div 262144), 128 + ((c \div 4096) % 64),
           128 + ((c \div 64) % 64), 128 + (c % 64)>>

RECURSIVE utf8_encode(_)
\* str.encode('utf8') of a string whose code points are all encodable
utf8_encode(chars) ==
    IF chars = <<>> THEN <<>>
    ELSE utf8_of(Head(chars)) \o utf8_encode(Tail(chars))

\* a continuation byte
is_cont(b, i) == i <= Len(b) /\ b[i] >= 128 /\ b[i] <= 191

\* the length of the well-formed UTF-8 sequence b starts with, 0 for none
utf8_width(b) ==
    IF b[1] < 128 THEN 1
    ELSE IF b[1] >= 194 /\ b[1] <= 223 /\ is_cont(b, 2) THEN 2
    ELSE IF b[1] >= 224 /\ b[1] <= 239 /\ is_cont(b, 2) /\ is_cont(b, 3)
            /\ (b[1] = 224 => b[2] >= 160) /\ (b[1] = 237 => b[2] <= 159) THEN 3
    ELSE IF b[1] >= 240 /\ b[1] <= 244
            /\ is_cont(b, 2) /\ is_cont(b, 3) /\ is_cont(b, 4)
            /\ (b[1] = 240 => b[2] >= 144) /\ (b[1] = 244 => b[2] <= 143) THEN 4
    ELSE 0

\* the code point of the well-formed sequence of n bytes b starts with
utf8_point(b, n) ==
    IF n = 1 THEN b[1]
    ELSE IF n = 2 THEN ((b[1] - 192) * 64) + (b[2] - 128)
    ELSE IF n = 3
    THEN ((b[1] - 224) * 4096) + ((b[2] - 128) * 64) + (b[3] - 128)
    ELSE ((b[1] - 240) * 262144) + ((b[2] - 128) * 4096) + ((b[3] - 128) * 64)
         + (b[4] - 128)

RECURSIVE utf8_decode(_)
\* bytes.decode('utf8'): the string, or not ok for UnicodeDecodeError
utf8_decode(b) ==
    IF b = <<>> THEN [ok |-> TRUE, chars |-> <<>>]
    ELSE LET n == utf8_width(b) IN
         IF n = 0 THEN [ok |-> FALSE, chars |-> <<>>]
         ELSE LET rest == utf8_decode(SubSeq(b, n + 1, Len(b)))
              IN  [ok |-> rest.ok,
                   chars |-> IF rest.ok THEN <<utf8_point(b, n)>> \o rest.chars
                             ELSE <<>>]

\* a dict: d.get(k, default), and d[k] = v
Get(d, k, default) == IF k \in DOMAIN d THEN d[k] ELSE default

Put(d, k, v) == [x \in DOMAIN d \cup {k} |-> IF x = k THEN v ELSE d[x]]

-----------------------------------------------------------------------------
(* Serial number arithmetic *)

\* a comparison of the numbers as they are
tsn_gt_unwrapped(a, b) == a > b

tsn_gt(a, b) ==
    LET half_mod == SCTP_TSN_MODULO \div 2
    IN  \/ (a < b /\ (b - a) > half_mod)
        \/ (a > b /\ (a - b) < half_mod)

\* a comparison that does not hold of equal numbers
tsn_gte_strict(a, b) == tsn_gt(a, b)

tsn_gte(a, b) == a = b \/ tsn_gt(a, b)

seq_gt(a, b) ==
    LET half_mod == 32768
    IN  \/ (a < b /\ (b - a) > half_mod)
        \/ (a > b /\ (a - b) < half_mod)

tsn_minus_one(a) == (a - 1) % SCTP_TSN_MODULO

tsn_plus_one(a) == (a + 1) % SCTP_TSN_MODULO

seq_plus_one(a) == (a + 1) % SCTP_SEQ_MODULO

\* flags & bit, for a bit that is a power of two
flag_set(flags, bit) == (flags \div bit) % 2 = 1

-----------------------------------------------------------------------------
(* Chunks and packets *)

\* A chunk object as its class makes it.  user_data is a byte string cut in
\* pieces of USERDATA_MAX_LENGTH bytes (the last one may be shorter): the
\* sequence of its pieces.
Chunk(t) ==
    [type |-> t, initiate_tag |-> 0, initial_tsn |-> 0, params |-> <<>>,
     body |-> NoBytes, tsn |-> 0, cumulative_tsn |-> 0, duplicates |-> <<>>,
     flags |-> 0, stream_id |-> 0, stream_seq |-> 0, protocol |-> 0,
     user_data |-> <<>>]

\* Packet.__bytes__ of a packet the association builds: the header and the
\* chunks, under a checksum that validates.
Datagram(tag, chunks) ==
    [length |-> 12 + 4 * Len(chunks), checksum_ok |-> TRUE,
     verification_tag |-> tag, chunks |-> chunks]

\* Packet.parse without the comparison of the checksum
parse_unchecked(d) ==
    IF d.length < 12 THEN "truncated" ELSE "ok"

\* Packet.parse: the two ValueErrors, or the packet
parse(d) ==
    IF d.length < 12 THEN "truncated"
    ELSE IF ~d.checksum_ok THEN "invalid checksum"
    ELSE "ok"

-----------------------------------------------------------------------------
(* InboundStream *)

\* InboundStream.__init__
InboundStream == [reassembly |-> <<>>, sequence_number |-> 0]

\* InboundStream.add_chunk: the chunk goes before the first buffered chunk
\* with a greater TSN; a chunk whose TSN is buffered already is dropped
\* when the scan meets it
add_chunk(stream, chunk) ==
    LET r == stream.reassembly
        stops == {i \in 1..Len(r) :
                    r[i].tsn = chunk.tsn \/ tsn_gt(r[i].tsn, chunk.tsn)}
        i == IF stops = {} THEN Len(r) + 1
             ELSE CHOOSE k \in stops : \A j \in stops : k <= j
    IN  IF i <= Len(r) /\ r[i].tsn = chunk.tsn THEN stream
        ELSE [stream EXCEPT !.reassembly =
                SubSeq(r, 1, i - 1) \o <<chunk>> \o SubSeq(r, i, Len(r))]

\* The loop of pop_messages from the chunk at pos (counted from 1) of copy,
\* the buffer as it was at the call: s holds the stream and the locals of
\* the generator, out the messages yielded so far.
RECURSIVE pop_loop(_, _, _, _)
pop_loop(copy, pos, s, out) ==
    LET done == [stream |-> [reassembly |-> s.reassembly,
                             sequence_number |-> s.sequence_number],
                 messages |-> out]
    IN  IF pos > Len(copy) THEN done
        ELSE
        LET chunk == copy[pos] IN
        IF chunk.stream_seq # s.sequence_number THEN done
        ELSE IF s.first_frag /\ ~flag_set(chunk.flags, SCTP_DATA_FIRST_FRAG) THEN done
        ELSE IF ~s.first_frag /\ chunk.tsn # s.expected_tsn THEN done
        ELSE
        LET expected_tsn == IF s.first_frag THEN chunk.tsn ELSE s.expected_tsn
            user_data == IF s.first_frag THEN chunk.user_data
                         ELSE s.user_data \o chunk.user_data
        IN  IF flag_set(chunk.flags, SCTP_DATA_LAST_FRAG)
            THEN pop_loop(copy, pos + 1,
                    [reassembly |-> SubSeq(s.reassembly, pos + 1, Len(s.reassembly)),
                     sequence_number |-> seq_plus_one(s.sequence_number),
                     first_frag |-> TRUE,
                     expected_tsn |-> tsn_plus_one(expected_tsn),
                     user_data |-> user_data],
                    Append(out, [stream_id |-> chunk.stream_id,
                                 protocol |-> chunk.protocol,
                                 user_data |-> user_data]))
            ELSE pop_loop(copy, pos + 1,
                    [s EXCEPT !.first_frag = FALSE,
                              !.expected_tsn = tsn_plus_one(expected_tsn),
                              !.user_data = user_data],
                    out)

\* a pop_messages that takes the stream sequence number of the first
\* buffered chunk for the expected one
pop_messages_any_seq(stream) ==
    pop_loop(stream.reassembly, 1,
             [reassembly |-> stream.reassembly,
              sequence_number |-> IF stream.reassembly = <<>>
                                  THEN stream.sequence_number
                                  ELSE stream.reassembly[1].stream_seq,
              first_frag |-> TRUE, expected_tsn |-> 0, user_data |-> <<>>],
             <<>>)

\* InboundStream.pop_messages, run to its end: the stream after it and the
\* messages it yields
pop_messages(stream) ==
    pop_loop(stream.reassembly, 1,
             [reassembly |-> stream.reassembly,
              sequence_number |-> stream.sequence_number,
              first_frag |-> TRUE, expected_tsn |-> 0, user_data |-> <<>>],
             <<>>)

-----------------------------------------------------------------------------
(* The wire format.  A packet on the wire is the sequence of its bytes; the *)
(* fields of 32 bits are kept below 2^31.                                   *)

\* pack('!L', n)
pack_L(n) ==
    <<(n \div 16777216) % 256, (n \div 65536) % 256, (n \div 256) % 256, n % 256>>

\* unpack('!L', b[at:at + 4])
unpack_L(b, at) ==
    (b[at + 1] * 16777216) + (b[at + 2] * 65536) + (b[at + 3] * 256) + b[at + 4]

padl(l) == (4 * ((l + 3) \div 4)) - l

\* b'\x00' * n
zero_bytes(n) == [i \in 1..n |-> 0]

RECURSIVE decode_params_at(_, _)
\* the loop of decode_params from pos on.  A parameter length of 0 leaves
\* pos where it is: the loop has no end.
decode_params_at(body, pos) ==
    IF pos > Len(body) - 4 THEN [status |-> "ok", params |-> <<>>]
    ELSE LET param_length == unpack_H(body, pos + 2) IN
         IF param_length + padl(param_length) = 0
         THEN [status |-> "no end", params |-> <<>>]
         ELSE LET rest == decode_params_at(body,
                              pos + param_length + padl(param_length))
              IN  [status |-> rest.status,
                   params |-> <<<<unpack_H(body, pos),
                                  Slice(body, pos + 4, pos + param_length)>>>>
                              \o rest.params]

decode_params(body) == decode_params_at(body, 0)

RECURSIVE encode_params_unpadded(_)
\* encode_params without the padding between the parameters
encode_params_unpadded(params) ==
    IF params = <<>> THEN <<>>
    ELSE pack_H(Head(params)[1]) \o pack_H(Len(Head(params)[2]) + 4)
         \o Head(params)[2] \o encode_params_unpadded(Tail(params))

RECURSIVE encode_params(_)
\* padding goes in front of the parameter that follows, none after the last
encode_params(params) ==
    IF params = <<>> THEN <<>>
    ELSE pack_H(Head(params)[1]) \o pack_H(Len(Head(params)[2]) + 4)
         \o Head(params)[2]
         \o (IF Tail(params) = <<>> THEN <<>>
             ELSE zero_bytes(padl(Len(Head(params)[2]) + 4))
                  \o encode_params(Tail(params)))

\* What the constructor of a chunk class makes of flags and body: the chunk,
\* or the exception it raises (unpack of too few bytes), or no end.
Built(chunk) == [status |-> "ok", chunk |-> chunk]

NotBuilt(status) == [status |-> status, chunk |-> <<>>]

\* Chunk.__init__: the classes that keep the body as it is
PlainChunk(type, flags, body) ==
    Built([type |-> type, flags |-> flags, body |-> body])

BaseParamsChunk(type, flags, body) ==
    LET decoded == IF body # <<>> THEN decode_params(body)
                   ELSE [status |-> "ok", params |-> <<>>]
    IN  IF decoded.status # "ok" THEN NotBuilt(decoded.status)
        ELSE Built([type |-> type, flags |-> flags, params |-> decoded.params])

DataChunk(flags, body) ==
    IF body = <<>>
    THEN Built([type |-> 0, flags |-> flags, tsn |-> 0, stream_id |-> 0,
                stream_seq |-> 0, protocol |-> 0, user_data |-> <<>>])
    ELSE IF Len(body) < 12 THEN NotBuilt("struct.error")
    ELSE Built([type |-> 0, flags |-> flags, tsn |-> unpack_L(body, 0),
                stream_id |-> unpack_H(body, 4), stream_seq |-> unpack_H(body, 6),
                protocol |-> unpack_L(body, 8),
                user_data |-> Slice(body, 12, Len(body))])

BaseInitChunk(type, flags, body) ==
    IF body = <<>>
    THEN Built([type |-> type, flags |-> flags, initiate_tag |-> 0,
                advertised_rwnd |-> 0, outbound_streams |-> 0,
                inbound_streams |-> 0, initial_tsn |-> 0, params |-> <<>>])
    ELSE IF Len(body) < 16 THEN NotBuilt("struct.error")
    ELSE LET decoded == decode_params(Slice(body, 16, Len(body))) IN
         IF decoded.status # "ok" THEN NotBuilt(decoded.status)
         ELSE Built([type |-> type, flags |-> flags,
                     initiate_tag |-> unpack_L(body, 0),
                     advertised_rwnd |-> unpack_L(body, 4),
                     outbound_streams |-> unpack_H(body, 8),
                     inbound_streams |-> unpack_H(body, 10),
                     initial_tsn |-> unpack_L(body, 12),
                     params |-> decoded.params])

SackChunk(flags, body) ==
    IF body = <<>>
    THEN Built([type |-> 3, flags |-> flags, cumulative_tsn |-> 0,
                advertised_rwnd |-> 0, gaps |-> <<>>, duplicates |-> <<>>])
    ELSE IF Len(body) < 12 THEN NotBuilt("struct.error")
    ELSE LET nb_gaps == unpack_H(body, 8)
             nb_duplicates == unpack_H(body, 10)
         IN  IF Len(body) < 12 + (4 * (nb_gaps + nb_duplicates))
             THEN NotBuilt("struct.error")
             ELSE Built([type |-> 3, flags |-> flags,
                         cumulative_tsn |-> unpack_L(body, 0),
                         advertised_rwnd |-> unpack_L(body, 4),
                         gaps |-> [i \in 1..nb_gaps |->
                                      <<unpack_H(body, 8 + (4 * i)),
                                        unpack_H(body, 10 + (4 * i))>>],
                         duplicates |-> [i \in 1..nb_duplicates |->
                                      unpack_L(body, 8 + (4 * nb_gaps) + (4 * i))]])

ShutdownChunk(flags, body) ==
    IF body = <<>> THEN Built([type |-> 7, flags |-> flags, cumulative_tsn |-> 0])
    ELSE IF Len(body) < 4 THEN NotBuilt("struct.error")
    ELSE Built([type |-> 7, flags |-> flags, cumulative_tsn |-> unpack_L(body, 0)])

\* the keys of CHUNK_TYPES
CHUNK_TYPES == {0, 1, 2, 3, 4, 5, 6, 7, 8, 9, 10, 11, 14}

\* CHUNK_TYPES[chunk_type](flags=flags, body=body)
chunk_cls(chunk_type, flags, body) ==
    IF chunk_type = 0 THEN DataChunk(flags, body)
    ELSE IF chunk_type \in {1, 2} THEN BaseInitChunk(chunk_type, flags, body)
    ELSE IF chunk_type = 3 THEN SackChunk(flags, body)
    ELSE IF chunk_type \in {4, 5, 6, 9} THEN BaseParamsChunk(chunk_type, flags, body)
    ELSE IF chunk_type = 7 THEN ShutdownChunk(flags, body)
    ELSE PlainChunk(chunk_type, flags, body)

RECURSIVE pack_all(_)
\* the bytes of a list of byte strings, joined
pack_all(list) ==
    IF list = <<>> THEN <<>> ELSE Head(list) \o pack_all(Tail(list))

\* the body property of the chunk classes
chunk_body(chunk) ==
    IF chunk.type = 0
    THEN pack_L(chunk.tsn) \o pack_H(chunk.stream_id) \o pack_H(chunk.stream_seq)
         \o pack_L(chunk.protocol) \o chunk.user_data
    ELSE IF chunk.type \in {1, 2}
    THEN pack_L(chunk.initiate_tag) \o pack_L(chunk.advertised_rwnd)
         \o pack_H(chunk.outbound_streams) \o pack_H(chunk.inbound_streams)
         \o pack_L(chunk.initial_tsn) \o encode_params(chunk.params)
    ELSE IF chunk.type = 3
    THEN pack_L(chunk.cumulative_tsn) \o pack_L(chunk.advertised_rwnd)
         \o pack_H(Len(chunk.gaps)) \o pack_H(Len(chunk.duplicates))
         \o pack_all([i \in 1..Len(chunk.gaps) |->
                         pack_H(chunk.gaps[i][1]) \o pack_H(chunk.gaps[i][2])])
         \o pack_all([i \in 1..Len(chunk.duplicates) |->
                         pack_L(chunk.duplicates[i])])
    ELSE IF chunk.type \in {4, 5, 6, 9} THEN encode_params(chunk.params)
    ELSE IF chunk.type = 7 THEN pack_L(chunk.cumulative_tsn)
    ELSE chunk.body

\* Chunk.__bytes__, given the body
chunk_with_body(chunk, body) ==
    <<chunk.type, chunk.flags>> \o pack_H(Len(body) + 4) \o body
    \o zero_bytes(padl(Len(body)))

chunk_bytes(chunk) == chunk_with_body(chunk, chunk_body(chunk))

RECURSIVE weighted_sum(_, _)
weighted_sum(data, i) ==
    IF i > Len(data) THEN 0
    ELSE (((i * 31) + 7) * (data[i] + 1)) + weighted_sum(data, i + 1)

\* The CRC-32C of crcmod, a library outside the repository: a number that
\* every byte and its place bear on stands for it.
crc32c(data) == weighted_sum(data, 1)

\* pack('!L', swapl(i)): the bytes of i, the lowest first
pack_L_swapl(i) ==
    <<i % 256, (i \div 256) % 256, (i \div 65536) % 256, (i \div 16777216) % 256>>

\* data with its bytes 8 to 11 set to zero
check_data(data) ==
    Slice(data, 0, 8) \o <<0, 0, 0, 0>> \o Slice(data, 12, Len(data))

\* the last two lines of Packet.__bytes__
with_checksum(data) ==
    Slice(data, 0, 8) \o pack_L_swapl(crc32c(data)) \o Slice(data, 12, Len(data))

Packet(source_port, destination_port, verification_tag, chunks) ==
    [source_port |-> source_port, destination_port |-> destination_port,
     verification_tag |-> verification_tag, chunks |-> chunks]

\* Packet.__bytes__
packet_bytes(packet) ==
    with_checksum(pack_H(packet.source_port) \o pack_H(packet.destination_port)
                  \o pack_L(packet.verification_tag) \o <<0, 0, 0, 0>>
                  \o pack_all([i \in 1..Len(packet.chunks) |->
                                  chunk_bytes(packet.chunks[i])]))

RECURSIVE parse_chunks(_, _)
\* the loop of Packet.parse from pos on: a chunk of a type that is no key of
\* CHUNK_TYPES is passed over, a chunk length of 0 leaves pos where it is
parse_chunks(data, pos) ==
    IF pos > Len(data) - 4 THEN [status |-> "ok", chunks |-> <<>>]
    ELSE LET chunk_type == data[pos + 1]
             chunk_length == unpack_H(data, pos + 2)
             built == IF chunk_type \in CHUNK_TYPES
                      THEN chunk_cls(chunk_type, data[pos + 2],
                                     Slice(data, pos + 4, pos + chunk_length))
                      ELSE NotBuilt("ok")
         IN  IF built.status # "ok" THEN [status |-> built.status, chunks |-> <<>>]
             ELSE IF chunk_length + padl(chunk_length) = 0
             THEN [status |-> "no end", chunks |-> <<>>]
             ELSE LET rest == parse_chunks(data, pos + chunk_length
                                                 + padl(chunk_length))
                  IN  [status |-> rest.status,
                       chunks |-> IF rest.status # "ok" THEN <<>>
                                  ELSE IF chunk_type \in CHUNK_TYPES
                                  THEN <<built.chunk>> \o rest.chunks
                                  ELSE rest.chunks]

NoPacket == Packet(0, 0, 0, <<>>)

\* raise ValueError(message)
ValueError(message) ==
    [status |-> "ValueError", message |-> message, packet |-> NoPacket]

\* the header and the chunks of Packet.parse, after the two checks
packet_parsed(data, parsed) ==
    [status |-> parsed.status, message |-> "",
     packet |-> IF parsed.status # "ok" THEN NoPacket
                ELSE Packet(unpack_H(data, 0), unpack_H(data, 2),
                            unpack_L(data, 4), parsed.chunks)]

\* Packet.parse without the comparison of the checksums
packet_parse_unverified(data) ==
    IF Len(data) < 12
    THEN ValueError("SCTP packet length is less than 12 bytes")
    ELSE packet_parsed(data, parse_chunks(data, 12))

\* Packet.parse: the packet, or the exception it raises, or no end
packet_parse(data) ==
    IF Len(data) < 12
    THEN ValueError("SCTP packet length is less than 12 bytes")
    ELSE IF Slice(data, 8, 12) # pack_L_swapl(crc32c(check_data(data)))
    THEN ValueError("SCTP packet has invalid checksum")
    ELSE packet_parsed(data, parse_chunks(data, 12))

-----------------------------------------------------------------------------
(* RTCSctpTransport *)

\* RTCSctpTransport.__init__.  Beside the fields of the object the record
\* holds the objects the fields refer to: lists, the list objects that
\* _data_channel_queue was bound to so far (data_channel_queue is the index
\* of the one it is bound to now), and channels, the RTCDataChannel objects
\* of this transport (the queue and data_channels hold their indexes).  sent
\* and allocated are histories: the arguments of the _send calls and the ids
\* given to channels so far.
new_assoc(p) ==
    [state |-> "CLOSED", closed |-> FALSE,
     local_tsn |-> initial_local_tsn[p],
     last_received_tsn |-> None, remote_verification_tag |-> 0,
     sack_duplicates |-> <<>>, sack_needed |-> FALSE,
     outbound_stream_seq |-> <<>>, inbound_streams |-> <<>>,
     data_channel_id |-> None, data_channel_queue |-> 1, data_channels |-> <<>>,
     lists |-> << <<>> >>, channels |-> <<>>, sent |-> <<>>, allocated |-> <<>>]

\* RTCSctpTransport._set_state
set_state(a, st) ==
    IF st # a.state
    THEN [a EXCEPT !.state = st,
                   !.closed = IF st = "CLOSED" THEN TRUE ELSE @]
    ELSE a

\* RTCDataChannel(transport, parameters, id=id), before _data_channel_open
new_channel(id, label, protocol) ==
    [id |-> id, label |-> label, protocol |-> protocol, readyState |-> "connecting"]

\* self._data_channel_queue.append(item)
queue_append(a, item) ==
    [a EXCEPT !.lists[a.data_channel_queue] = Append(@, item)]

\* the DCEP OPEN message of _data_channel_open; len() of a string counts
\* its code points
open_message(label, protocol) ==
    <<DATA_CHANNEL_OPEN, DATA_CHANNEL_RELIABLE, 0, 0, 0, 0, 0, 0>>
    \o pack_H(Len(label)) \o pack_H(Len(protocol))
    \o utf8_encode(label) \o utf8_encode(protocol)

\* _data_channel_open without the task it starts, for the channel at index c
data_channel_open(a, c) ==
    queue_append(a, [channel |-> c, protocol |-> WEBRTC_DCEP,
                     user_data |-> open_message(a.channels[c].label,
                                                a.channels[c].protocol)])

\* The values an application sends and receives: a str or a bytes object.
Str(chars) == [kind |-> "str", chars |-> chars]

BytesOf(bytes) == [kind |-> "bytes", chars |-> bytes]

\* a framing that tells the empty values only: every other value goes out
\* as binary
payload_of_as_binary(data) ==
    IF data = Str(<<>>)
    THEN [pp_id |-> WEBRTC_STRING_EMPTY, user_data |-> <<0>>]
    ELSE IF data = BytesOf(<<>>)
    THEN [pp_id |-> WEBRTC_BINARY_EMPTY, user_data |-> <<0>>]
    ELSE [pp_id |-> WEBRTC_BINARY,
          user_data |-> IF data.kind = "str" THEN utf8_encode(data.chars)
                        ELSE data.chars]

\* the protocol id and the user data _data_channel_send picks for a value
payload_of(data) ==
    IF data = Str(<<>>)
    THEN [pp_id |-> WEBRTC_STRING_EMPTY, user_data |-> <<0>>]
    ELSE IF data.kind = "str"
    THEN [pp_id |-> WEBRTC_STRING, user_data |-> utf8_encode(data.chars)]
    ELSE IF data = BytesOf(<<>>)
    THEN [pp_id |-> WEBRTC_BINARY_EMPTY, user_data |-> <<0>>]
    ELSE [pp_id |-> WEBRTC_BINARY, user_data |-> data.chars]

\* math.ceil(len(user_data) / USERDATA_MAX_LENGTH)
fragments_of(user_data) ==
    (Len(user_data) + USERDATA_MAX_LENGTH - 1) \div USERDATA_MAX_LENGTH

\* The locals of a _send suspended in the send of a fragment.
NoSend == [stream_id |-> 0, pp_id |-> 0, user_data |-> <<>>, stream_seq |-> 0,
           fragment |-> 0]

\* _send: the body of the loop for the fragment of sd, up to the transport send
send_fragment(a, sd) ==
    LET fragments == fragments_of(sd.user_data)
        pos == sd.fragment * USERDATA_MAX_LENGTH
        chunk == [Chunk("DATA") EXCEPT
                    !.flags = (IF sd.fragment = 0 THEN SCTP_DATA_FIRST_FRAG ELSE 0)
                              + (IF sd.fragment = fragments - 1
                                 THEN SCTP_DATA_LAST_FRAG ELSE 0),
                    !.tsn = a.local_tsn,
                    !.stream_id = sd.stream_id,
                    !.stream_seq = sd.stream_seq,
                    !.protocol = sd.pp_id,
                    !.user_data = Slice(sd.user_data, pos, pos + USERDATA_MAX_LENGTH)]
    IN  [a |-> [a EXCEPT !.local_tsn = tsn_plus_one(@)],
         out |-> <<chunk>>, send |-> sd, done |-> FALSE]

\* _send from the end of its loop
send_end(a, sd) ==
    [a |-> [a EXCEPT !.outbound_stream_seq =
                Put(@, sd.stream_id, seq_plus_one(sd.stream_seq))],
     out |-> <<>>, send |-> NoSend, done |-> TRUE]

\* _send(stream_id, pp_id, user_data) up to its first suspension, or to its
\* end when there is nothing to send
send_begin(a, stream_id, pp_id, user_data) ==
    LET sd == [stream_id |-> stream_id, pp_id |-> pp_id, user_data |-> user_data,
               stream_seq |-> Get(a.outbound_stream_seq, stream_id, 0),
               fragment |-> 0]
        a1 == [a EXCEPT !.sent = Append(@, [stream_id |-> stream_id,
                                            protocol |-> pp_id,
                                            user_data |-> user_data])]
    IN  IF fragments_of(user_data) = 0 THEN send_end(a1, sd)
        ELSE send_fragment(a1, sd)

\* _send from the completed send of a fragment to the next suspension, or
\* to its end
send_resume(a, sd) ==
    IF sd.fragment + 1 < fragments_of(sd.user_data)
    THEN send_fragment(a, [sd EXCEPT !.fragment = @ + 1])
    ELSE send_end(a, sd)

\* The locals of a _data_channel_flush suspended in a _send: the list object
\* it iterates over, the position of the item it is sending, and the _send.
NoFlush == [list |-> 0, i |-> 0, send |-> NoSend]

\* an allocation that takes the ids one after the other
assign_id_by_one(a, c) ==
    IF a.channels[c].id = None
    THEN [a EXCEPT !.data_channels = Put(@, a.data_channel_id, c),
                   !.data_channel_id = @ + 1,
                   !.channels[c].id = a.data_channel_id,
                   !.allocated = Append(@, a.data_channel_id)]
    ELSE a

\* _data_channel_flush: the id it gives to the channel at index c that has
\* none
assign_id(a, c) ==
    IF a.channels[c].id = None
    THEN [a EXCEPT !.data_channels = Put(@, a.data_channel_id, c),
                   !.data_channel_id = @ + 2,
                   !.channels[c].id = a.data_channel_id,
                   !.allocated = Append(@, a.data_channel_id)]
    ELSE a

RECURSIVE flush_items(_, _, _)

\* _data_channel_flush after r, the outcome of the _send for the item at
\* position i of the list or of its resumption: it waits for the send, or
\* goes on with the next item
flush_sent(r, list, i) ==
    IF r.done THEN flush_items(r.a, list, i + 1)
    ELSE [a |-> r.a, out |-> r.out,
          flush |-> [list |-> list, i |-> i, send |-> r.send], done |-> FALSE]

\* _data_channel_flush from the item at position i of the list: the items
\* up to the next suspension, and past the last one the new empty list
flush_items(a, list, i) ==
    IF i > Len(a.lists[list])
    THEN [a |-> [a EXCEPT !.lists = Append(@, <<>>),
                          !.data_channel_queue = Len(a.lists) + 1],
          out |-> <<>>, flush |-> NoFlush, done |-> TRUE]
    ELSE flush_sent(send_begin(assign_id(a, a.lists[list][i].channel),
                               assign_id(a, a.lists[list][i].channel)
                                   .channels[a.lists[list][i].channel].id,
                               a.lists[list][i].protocol,
                               a.lists[list][i].user_data),
                    list, i)

\* _data_channel_flush up to its first suspension, or to its end
data_channel_flush(a) ==
    IF a.state # "ESTABLISHED"
    THEN [a |-> a, out |-> <<>>, flush |-> NoFlush, done |-> TRUE]
    ELSE flush_items(a, a.data_channel_queue, 1)

\* _data_channel_flush from the completed send of a fragment on
flush_resume(a, f) ==
    flush_sent(send_resume(a, f.send), f.list, f.i)

\* What the transport hands to the layer above, as the history records it:
\* a call of _receive, a datachannel event with the channel as it is when
\* the event is emitted, a message event of the channel with index c.
Delivered(m) ==
    [event |-> "receive", stream_id |-> m.stream_id, protocol |-> m.protocol,
     user_data |-> m.user_data]

DataChannelEvent(a, c) == [event |-> "datachannel", channel |-> a.channels[c]]

MessageEvent(a, c, data) ==
    [event |-> "message", channel |-> a.channels[c].id, data |-> data]

\* What _data_channel_receive does up to the flush it awaits: the
\* association after it, the events it emits, whether it raised, and for a
\* DCEP OPEN the channel whose datachannel event follows the flush.
Received(a, up) == [a |-> a, up |-> up, crash |-> FALSE, channel |-> 0]

data_channel_receive(a, stream_id, pp_id, data) ==
    IF pp_id = WEBRTC_DCEP /\ Len(data) # 0 THEN
        LET msg_type == data[1] IN
        IF msg_type = DATA_CHANNEL_OPEN /\ Len(data) >= 12 THEN
            LET label_length == unpack_H(data, 8)
                protocol_length == unpack_H(data, 10)
                label == utf8_decode(Slice(data, 12, 12 + label_length))
                protocol == utf8_decode(Slice(data, 12 + label_length,
                                              12 + label_length + protocol_length))
                c == Len(a.channels) + 1
                channel == [new_channel(stream_id, label.chars, protocol.chars)
                               EXCEPT !.readyState = "open"]
                a1 == [a EXCEPT !.channels = Append(@, channel),
                                !.data_channels = Put(@, stream_id, c)]
            IN  IF stream_id \in DOMAIN a.data_channels
                THEN \* assert stream_id not in self._data_channels
                     [Received(a, <<>>) EXCEPT !.crash = TRUE]
                ELSE IF stream_id % 2 = a.data_channel_id % 2
                THEN \* assert (stream_id % 2) != (self._data_channel_id % 2)
                     [Received(a, <<>>) EXCEPT !.crash = TRUE]
                ELSE IF ~label.ok \/ ~protocol.ok
                THEN \* UnicodeDecodeError
                     [Received(a, <<>>) EXCEPT !.crash = TRUE]
                ELSE [Received(queue_append(a1,
                          [channel |-> c, protocol |-> WEBRTC_DCEP,
                           user_data |-> <<DATA_CHANNEL_ACK>>]), <<>>)
                        EXCEPT !.channel = c]
        ELSE IF msg_type = DATA_CHANNEL_ACK THEN
            IF stream_id \notin DOMAIN a.data_channels
            THEN \* assert stream_id in self._data_channels
                 [Received(a, <<>>) EXCEPT !.crash = TRUE]
            ELSE Received([a EXCEPT !.channels[a.data_channels[stream_id]].readyState
                                        = "open"], <<>>)
        ELSE Received(a, <<>>)
    ELSE IF pp_id = WEBRTC_STRING /\ stream_id \in DOMAIN a.data_channels THEN
        LET text == utf8_decode(data) IN
        IF ~text.ok THEN [Received(a, <<>>) EXCEPT !.crash = TRUE]
        ELSE Received(a, <<MessageEvent(a, a.data_channels[stream_id], Str(text.chars))>>)
    ELSE IF pp_id = WEBRTC_STRING_EMPTY /\ stream_id \in DOMAIN a.data_channels THEN
        Received(a, <<MessageEvent(a, a.data_channels[stream_id], Str(<<>>))>>)
    ELSE IF pp_id = WEBRTC_BINARY /\ stream_id \in DOMAIN a.data_channels THEN
        Received(a, <<MessageEvent(a, a.data_channels[stream_id], BytesOf(data))>>)
    ELSE IF pp_id = WEBRTC_BINARY_EMPTY /\ stream_id \in DOMAIN a.data_channels THEN
        Received(a, <<MessageEvent(a, a.data_channels[stream_id], BytesOf(<<>>))>>)
    ELSE Received(a, <<>>)

\* What one call of _receive_chunk does up to its first transport send:
\* the association after it, the chunk it sends (if any), what follows when
\* the send has completed (cont: a state to set, "flush" for the rest of a
\* _data_channel_flush, "" for nothing), whether it raised, what it handed
\* to the layer above, and for cont = "flush" the locals of the flush, the
\* channel to emit after it and the messages still to hand up.
Handled(a, out, cont) ==
    [a |-> a, out |-> out, cont |-> cont, crash |-> FALSE, up |-> <<>>,
     flush |-> NoFlush, channel |-> 0, msgs |-> <<>>]

Raised(a) == [Handled(a, <<>>, "") EXCEPT !.crash = TRUE]

RECURSIVE receive_messages(_, _, _)

\* _data_channel_receive for a DCEP OPEN after f, the outcome of the flush it
\* awaits or of its resumption: it waits for the send, or emits the
\* datachannel event of the channel, and the loop goes on with msgs
flush_awaited(f, channel, msgs, up) ==
    IF f.done
    THEN receive_messages(f.a, msgs, Append(up, DataChannelEvent(f.a, channel)))
    ELSE [Handled(f.a, f.out, "flush") EXCEPT
            !.up = up, !.flush = f.flush, !.channel = channel, !.msgs = msgs]

\* _receive after r, the outcome of _data_channel_receive up to its flush
message_received(r, msgs, up) ==
    IF r.crash THEN [Raised(r.a) EXCEPT !.up = up]
    ELSE IF r.channel = 0 THEN receive_messages(r.a, msgs, up \o r.up)
    ELSE flush_awaited(data_channel_flush(r.a), r.channel, msgs, up)

\* The loop over pop_messages() of the DATA branch: _receive for the
\* messages msgs, after up was handed up already
receive_messages(a, msgs, up) ==
    IF msgs = <<>> THEN [Handled(a, <<>>, "") EXCEPT !.up = up]
    ELSE message_received(
            data_channel_receive(a, Head(msgs).stream_id, Head(msgs).protocol,
                                 Head(msgs).user_data),
            Tail(msgs), Append(up, Delivered(Head(msgs))))

\* the DATA branch from the completed send of a fragment of the flush that
\* the handling of a DCEP OPEN awaits
receive_resume(a, flush, channel, msgs) ==
    flush_awaited(flush_resume(a, flush), channel, msgs, <<>>)

\* the DATA branch once the chunk is in its stream and popped is what
\* pop_messages() yields
data_received(a, chunk, popped_stream) ==
    receive_messages(
        [a EXCEPT !.last_received_tsn = chunk.tsn,
                  !.sack_needed = TRUE,
                  !.inbound_streams = Put(@, chunk.stream_id, popped_stream.stream)],
        popped_stream.messages, <<>>)

InitAckFor(p, a, t) ==
    [Chunk("INIT_ACK") EXCEPT
        !.initiate_tag = local_verification_tag[p],
        !.initial_tsn = a.local_tsn,
        !.params = << <<STATE_COOKIE, mint_cookie(hmac_key[p], t)>> >>]

\* an INIT_ACK branch that leaves echo.body as CookieEchoChunk() made it
state_cookie_unset(params) == NoBytes

\* the loop over chunk.params of the INIT_ACK branch
state_cookie_of(params) ==
    LET hits == {i \in 1..Len(params) : params[i][1] = STATE_COOKIE}
    IN  IF hits = {} THEN NoBytes
        ELSE params[CHOOSE i \in hits : \A j \in hits : i <= j][2]

\* a check of the state cookie that looks at its length only
cookie_invalid_length_only(p, cookie) ==
    cookie.len # COOKIE_LENGTH

\* a check of the state cookie that looks at its MAC only
cookie_invalid_mac_only(p, cookie) ==
    hmac_sha1(hmac_key[p], cookie.stamp) # cookie.mac

\* the check of the state cookie's MAC
cookie_invalid(p, cookie) ==
    \/ cookie.len # COOKIE_LENGTH
    \/ hmac_sha1(hmac_key[p], cookie.stamp) # cookie.mac

\* a lifetime check that rejects a cookie exactly COOKIE_LIFETIME old
cookie_expired_strict(cookie, t) ==
    cookie.stamp <= t - COOKIE_LIFETIME \/ cookie.stamp > t

\* the check of the state cookie's lifetime, at time t
cookie_expired(cookie, t) ==
    cookie.stamp < t - COOKIE_LIFETIME \/ cookie.stamp > t

receive_chunk(p, a, chunk, t) ==
    IF chunk.type = "INIT" /\ is_server[p] THEN
        LET a1 == [a EXCEPT
                    !.last_received_tsn = tsn_minus_one(chunk.initial_tsn),
                    !.remote_verification_tag = chunk.initiate_tag]
        IN  Handled(a1, <<InitAckFor(p, a1, t)>>, "")
    ELSE IF chunk.type = "COOKIE_ECHO" /\ is_server[p] THEN
        LET cookie == chunk.body IN
        IF cookie_invalid(p, cookie)
        THEN Handled(a, <<>>, "")
        ELSE IF cookie_expired(cookie, t)
        THEN Handled(a, <<[Chunk("ERROR") EXCEPT !.params =
                             << <<SCTP_CAUSE_STALE_COOKIE, Zeros(8)>> >>]>>, "")
        ELSE Handled(a, <<Chunk("COOKIE_ACK")>>, "ESTABLISHED")
    ELSE IF chunk.type = "INIT_ACK" /\ ~is_server[p] THEN
        LET a1 == [a EXCEPT
                    !.last_received_tsn = tsn_minus_one(chunk.initial_tsn),
                    !.remote_verification_tag = chunk.initiate_tag]
        IN  Handled(a1, <<[Chunk("COOKIE_ECHO") EXCEPT
                             !.body = state_cookie_of(chunk.params)]>>,
                    "COOKIE_ECHOED")
    ELSE IF chunk.type = "COOKIE_ACK" /\ ~is_server[p] THEN
        Handled(set_state(a, "ESTABLISHED"), <<>>, "")
    ELSE IF chunk.type = "ERROR" /\ ~is_server[p]
            /\ a.state \in {"COOKIE_WAIT", "COOKIE_ECHOED"} THEN
        Handled(set_state(a, "CLOSED"), <<>>, "")
    ELSE IF chunk.type = "DATA" THEN
        IF a.last_received_tsn = None THEN Raised(a)
        ELSE IF tsn_gte(a.last_received_tsn, chunk.tsn) THEN
            Handled([a EXCEPT !.sack_duplicates = Append(@, chunk.tsn),
                              !.sack_needed = TRUE], <<>>, "")
        ELSE IF chunk.tsn # tsn_plus_one(a.last_received_tsn) THEN
            Handled([a EXCEPT !.sack_needed = TRUE], <<>>, "")
        ELSE
            data_received(a, chunk,
                          pop_messages(add_chunk(
                              Get(a.inbound_streams, chunk.stream_id, InboundStream),
                              chunk)))
    ELSE IF chunk.type = "SACK" THEN
        Handled(a, <<>>, "")
    ELSE IF chunk.type = "HEARTBEAT" THEN
        Handled(a, <<[Chunk("HEARTBEAT_ACK") EXCEPT !.params = chunk.params]>>, "")
    ELSE IF chunk.type = "ABORT" THEN
        Handled(set_state(a, "CLOSED"), <<>>, "")
    ELSE IF chunk.type = "SHUTDOWN" THEN
        Handled(set_state(a, "SHUTDOWN_RECEIVED"),
                <<Chunk("SHUTDOWN_ACK")>>, "SHUTDOWN_ACK_SENT")
    ELSE IF chunk.type = "SHUTDOWN_ACK" THEN
        Handled(a, <<Chunk("SHUTDOWN_COMPLETE")>>, "CLOSED")
    ELSE IF chunk.type = "SHUTDOWN_COMPLETE" THEN
        Handled(set_state(a, "CLOSED"), <<>>, "")
    ELSE Handled(a, <<>>, "")

\* The positions of the __run coroutine: where it is (pc), and when it is
\* suspended in a transport send, what follows on resuming (cont, with
\* flush, channel and msgs, as in Handled), the chunks of the packet still to
\* handle (rest), the chunk being handled and the timestamp read for it.
AtRecv ==
    [pc |-> "recv", cont |-> "", rest |-> <<>>, chunk |-> Chunk(""), now |-> 0,
     flush |-> NoFlush, channel |-> 0, msgs |-> <<>>]

AtSend(cont, rest, chunk, t) ==
    [AtRecv EXCEPT !.pc = "send", !.cont = cont, !.rest = rest, !.chunk = chunk,
                   !.now = t]

At(pc) == [AtRecv EXCEPT !.pc = pc]

SackFor(a) ==
    [Chunk("SACK") EXCEPT !.cumulative_tsn = a.last_received_tsn,
                          !.duplicates = a.sack_duplicates]

\* What __run does from one suspension to the next: the association after
\* it, the chunk it sends (if any), its new position, what it did with the
\* datagram (as last records it), and what it handed to the layer above.
Stepped(a, out, at) == [a |-> a, out |-> out, run |-> at, last |-> "", up |-> <<>>]

RECURSIVE handle_chunks(_, _, _, _)

\* __run after r, the outcome of _receive_chunk(chunk) or of its resumption:
\* it ends with the exception, waits for the send, or goes on with the
\* chunks left of the packet
after_chunk(p, r, chunk, rest, t) ==
    IF r.crash
    THEN [Stepped(r.a, <<>>, At("crashed")) EXCEPT !.up = r.up]
    ELSE IF r.out # <<>>
    THEN [Stepped(r.a, r.out,
                  [AtSend(r.cont, rest, chunk, t) EXCEPT
                      !.flush = r.flush, !.channel = r.channel, !.msgs = r.msgs])
            EXCEPT !.up = r.up]
    ELSE [handle_chunks(p, r.a, rest, t) EXCEPT !.up = r.up \o @]

\* __run from "handle chunks" on: the chunks left of the packet, then the
\* SACK, up to the next suspension (a transport send, or the next receive).
handle_chunks(p, a, chunks, t) ==
    IF chunks = <<>> THEN
        IF a.sack_needed
        THEN Stepped(a, <<SackFor(a)>>, AtSend("sack", <<>>, Chunk("SACK"), t))
        ELSE Stepped(a, <<>>, AtRecv)
    ELSE after_chunk(p, receive_chunk(p, a, Head(chunks), t),
                     Head(chunks), Tail(chunks), t)

\* RTCSctpTransport._send_chunk, up to the transport send
send_chunk(p, a, out) ==
    IF out = <<>> THEN net
    ELSE [net EXCEPT ![Other(p)] =
            Append(@, Datagram(a.remote_verification_tag, out))]

\* "is this an init?": the number of INIT chunks of the packet
init_chunk(chunks) ==
    Cardinality({i \in 1..Len(chunks) : chunks[i].type = "INIT"})

\* a tag check that expects 0 of every packet
expected_tag_zero(p, chunks) == 0

\* the tag a packet with these chunks has to carry
expected_tag(p, chunks) ==
    IF init_chunk(chunks) > 0 THEN 0 ELSE local_verification_tag[p]

\* __run from a received datagram to the next suspension
receive_datagram(p, a, d, t) ==
    IF parse(d) # "ok"
    THEN [Stepped(a, <<>>, AtRecv) EXCEPT !.last = parse(d)]
    ELSE IF init_chunk(d.chunks) > 0 /\ Len(d.chunks) # 1
    THEN \* assert len(packet.chunks) == 1 raises AssertionError
         [Stepped(a, <<>>, At("crashed")) EXCEPT !.last = "assert"]
    ELSE IF d.verification_tag # expected_tag(p, d.chunks)
    THEN [Stepped(a, <<>>, AtRecv) EXCEPT !.last = "bad tag"]
    ELSE [handle_chunks(p, a, d.chunks, t) EXCEPT !.last = d.chunks[1].type]

\* no pop_messages() call was the last step
NoPop == [before |-> InboundStream, messages |-> <<>>, called |-> FALSE]

\* no value was framed yet
NoFrame == [value |-> Str(<<>>), pp_id |-> 0, user_data |-> <<>>,
            up |-> <<>>, crash |-> FALSE, called |-> FALSE]

\* nothing was compared yet
NoCompare == [op |-> "none", a |-> 0, b |-> 0, gt |-> FALSE, back |-> FALSE,
              next |-> FALSE, self |-> FALSE]

\* nothing was coded yet
NoCode == [op |-> "none", wire |-> <<>>, status |-> "none", message |-> "",
           packet |-> NoPacket, bytes |-> <<>>, built |-> NoPacket]

-----------------------------------------------------------------------------
(* DtlsSrtpSession (aiortc/dtls.py).  The TLS engine and the peer are the  *)
(* environment: they choose the result of SSL_do_handshake, whether it     *)
(* left a flight to write, the certificate the peer presents and whether   *)
(* the keying material is exported.  SSL_shutdown writes its close-notify  *)
(* once, and only when the handshake is complete.                          *)

HexDigits == <<"0", "1", "2", "3", "4", "5", "6", "7", "8", "9",
               "A", "B", "C", "D", "E", "F">>

\* base64.b16encode(ch).upper() of one byte
b16encode(byte) == <<HexDigits[(byte \div 16) + 1], HexDigits[(byte % 16) + 1]>>

RECURSIVE join_colon(_)
\* b":".join(pairs)
join_colon(pairs) ==
    IF pairs = <<>> THEN <<>>
    ELSE IF Len(pairs) = 1 THEN pairs[1]
    ELSE pairs[1] \o <<":">> \o join_colon(Tail(pairs))

\* certificate_digest(x509): the SHA-256 of the certificate, which the model
\* takes as given, in upper-case hex pairs joined by colons
certificate_digest(x509) ==
    join_colon([i \in 1..Len(x509.sha256) |-> b16encode(x509.sha256[i])])

\* str.upper() of one character of a fingerprint
upper_char(c) ==
    CASE c = "a" -> "A" [] c = "b" -> "B" [] c = "c" -> "C"
      [] c = "d" -> "D" [] c = "e" -> "E" [] c = "f" -> "F"
      [] OTHER -> c

\* str.upper()
str_upper(text) == [i \in 1..Len(text) |-> upper_char(text[i])]

\* a check of the fingerprint that lets every certificate pass
fingerprint_differs_never(remote_fingerprint, expected) == FALSE

\* connect(): remote_fingerprint != self.remote_fingerprint.upper()
fingerprint_differs(remote_fingerprint, expected) ==
    remote_fingerprint # str_upper(expected)

NoCertificate == [sha256 |-> <<>>]

\* DtlsSrtpSession.__init__, and no coroutine of the session started.
\* connect, pump and closing are the positions of connect(), of __run and
\* the number of close() calls suspended in their transport send; result
\* is the local of connect() that holds what SSL_do_handshake returned;
\* fingerprint_set tells remote_fingerprint from None; error, written, the
\* counters and closed_from (the state at the first call of close()) are
\* history.
new_session ==
    [state |-> "CLOSED", encrypted |-> FALSE, closed |-> FALSE,
     remote_fingerprint |-> <<>>, fingerprint_set |-> FALSE,
     peer |-> NoCertificate, sent_shutdown |-> FALSE,
     connect |-> "none", result |-> "", error |-> "", pump |-> "none",
     closing |-> 0, written |-> <<>>,
     connects |-> 0, closes |-> 0, rounds |-> 0, records |-> 0,
     closed_from |-> ""]

\* DtlsSrtpSession._set_state
session_set_state(s, state) == [s EXCEPT !.state = state]

\* connect() raises
connect_raised(s, error) == [s EXCEPT !.connect = "raised", !.error = error]

\* connect() from the check of the fingerprint to its end
connect_finish(s, exported) ==
    IF ~s.fingerprint_set
    THEN \* None.upper()
         connect_raised(s, "AttributeError")
    ELSE IF fingerprint_differs(certificate_digest(s.peer), s.remote_fingerprint)
    THEN connect_raised(s, "DTLS fingerprint does not match")
    ELSE IF ~exported
    THEN connect_raised(s, "DTLS could not extract SRTP keying material")
    ELSE [session_set_state(s, "CONNECTED") EXCEPT
            !.connect = "returned", !.pump = "scheduled"]

\* connect() from the result of SSL_do_handshake, once _write_ssl has
\* returned, to the next suspension or to its end
handshake_result(s, x509, exported) ==
    IF s.result = "done"
    THEN connect_finish([s EXCEPT !.encrypted = TRUE, !.peer = x509], exported)
    ELSE IF s.result = "SSL_ERROR_WANT_READ"
    THEN [s EXCEPT !.connect = "recv"]
    ELSE connect_raised(s, "DTLS handshake failed")

\* connect() from the head of its loop to the next suspension or to its end
handshake_loop(s, result, pending, x509, exported) ==
    IF s.encrypted THEN connect_finish(s, exported)
    ELSE IF pending
    THEN [s EXCEPT !.result = result, !.connect = "write",
                   !.written = Append(@, "handshake")]
    ELSE handshake_result([s EXCEPT !.result = result], x509, exported)

\* __run from the exception that ends its loop: the finally clause
session_run_ends(s) ==
    [session_set_state(s, "CLOSED") EXCEPT !.closed = TRUE, !.pump = "done"]

\* close() up to its suspension or to its end
session_close(s) ==
    IF s.state = "CLOSED" THEN s
    ELSE IF s.encrypted /\ ~s.sent_shutdown
    THEN [s EXCEPT !.sent_shutdown = TRUE,
                   !.written = Append(@, "close_notify"),
                   !.closing = @ + 1]
    ELSE [s EXCEPT !.closed = TRUE]

-----------------------------------------------------------------------------
\* _recv_next: what the first byte of a datagram makes of it
datagram_kind(first_byte) ==
    IF first_byte > 19 /\ first_byte < 64 THEN "DTLS"
    ELSE IF first_byte > 127 /\ first_byte < 192 THEN "SRTP"
    ELSE "discard"

\* _recv_next of a datagram that is no DTLS record, called by connect(): the
\* session after it, connect() having gone on to its next suspension or to
\* its end.  self._rx_srtp is set at the end of connect(), so the SRTP
\* branch raises AttributeError.
recv_next_connecting(s, first_byte, result, pending, x509, exported) ==
    IF datagram_kind(first_byte) = "SRTP"
    THEN connect_raised([s EXCEPT !.rounds = @ + 1], "AttributeError")
    ELSE handshake_loop([s EXCEPT !.rounds = @ + 1], result, pending, x509,
                        exported)

\* _recv_next of a datagram that is no DTLS record, called by __run: an SRTP
\* packet is unprotected and put on rtp_queue, or unprotect raises
recv_next_running(s, first_byte, valid) ==
    IF datagram_kind(first_byte) = "SRTP" /\ ~valid
    THEN session_run_ends([s EXCEPT !.records = @ + 1])
    ELSE [s EXCEPT !.records = @ + 1]

(* The state after construction *)

Init ==
    /\ assoc = [p \in Peers |-> new_assoc(p)]
    /\ run = [p \in Peers |-> At("idle")]
    /\ last = [p \in Peers |-> ""]
    /\ stopper = [p \in Peers |-> [pc |-> "none", calls |-> 0]]
    /\ aborter = [p \in Peers |-> "none"]
    /\ net = [p \in Peers |-> <<>>]
    /\ dtls_closed = [p \in Peers |-> FALSE]
    /\ now = 0
    /\ injected = 0
    /\ log = <<>>
    /\ upper = [p \in Peers |-> <<>>]
    /\ tasks = [p \in Peers |-> <<>>]
    /\ requested = [p \in Peers |-> <<>>]
    /\ inbound = InboundStream
    /\ popped = NoPop
    /\ framed = NoFrame
    /\ coded = NoCode
    /\ compared = NoCompare
    /\ session = new_session

-----------------------------------------------------------------------------
(* Actions.  None of them states what becomes of log and of the variables  *)
(* of others: the specifications do.                                       *)

\* RTCSctpTransport.start
Start(p) ==
    /\ run[p].pc = "idle"
    /\ run' = [run EXCEPT ![p] = At("scheduled")]
    /\ UNCHANGED <<assoc, stopper, net, dtls_closed, now, injected, last, upper>>

\* __run up to its first suspension: the send of INIT (client), the first
\* receive (server)
RunBegin(p) ==
    /\ run[p].pc = "scheduled"
    /\ LET a == [assoc[p] EXCEPT !.data_channel_id = IF is_server[p] THEN 0 ELSE 1]
           init == [Chunk("INIT") EXCEPT
                      !.initiate_tag = local_verification_tag[p],
                      !.initial_tsn = a.local_tsn]
       IN  /\ assoc' = [assoc EXCEPT ![p] = a]
           /\ IF is_server[p]
              THEN /\ run' = [run EXCEPT ![p] = AtRecv]
                   /\ net' = net
              ELSE /\ run' = [run EXCEPT ![p] = AtSend("COOKIE_WAIT", <<>>, init, now)]
                   /\ net' = send_chunk(p, a, <<init>>)
    /\ UNCHANGED <<stopper, dtls_closed, now, injected, last, upper>>

\* a step r of p's __run; queued is what is queued for the peers when it ends
run_step(p, r, queued) ==
    /\ assoc' = [assoc EXCEPT ![p] = r.a]
    /\ run' = [run EXCEPT ![p] = r.run]
    /\ upper' = [upper EXCEPT ![p] = @ \o r.up]
    /\ net' = IF r.out = <<>> THEN queued
              ELSE [queued EXCEPT ![Other(p)] =
                     Append(@, Datagram(r.a.remote_verification_tag, r.out))]

\* __run from the datagram d that first_completed(...) returned to the next
\* suspension; rest is what stays queued
Receive(p, d, rest) ==
    /\ run[p].pc = "recv"
    /\ run_step(p, receive_datagram(p, assoc[p], d, now), rest)
    /\ last' = [last EXCEPT ![p] = receive_datagram(p, assoc[p], d, now).last]
    /\ UNCHANGED <<stopper, dtls_closed, now>>

\* the next datagram is one the peer sent
RecvData(p) ==
    /\ net[p] # <<>>
    /\ Receive(p, Head(net[p]), [net EXCEPT ![p] = Tail(@)])
    /\ UNCHANGED injected

\* first_completed(...) returns True: the closed event is set
RecvClosed(p) ==
    /\ run[p].pc = "recv"
    /\ assoc[p].closed
    /\ run' = [run EXCEPT ![p] = At("done")]
    /\ UNCHANGED <<assoc, stopper, net, dtls_closed, now, injected, last, upper>>

\* transport.data.recv() raises ConnectionError
RecvConnectionError(p) ==
    /\ run[p].pc = "recv"
    /\ dtls_closed[p]
    /\ assoc' = [assoc EXCEPT ![p] = set_state(@, "CLOSED")]
    /\ run' = [run EXCEPT ![p] = At("done")]
    /\ UNCHANGED <<stopper, net, dtls_closed, now, injected, last, upper>>

\* what follows the send of _receive_chunk and of __run: the state to set,
\* the reset of the SACK bookkeeping
after_send(a, cont) ==
    IF cont = "sack"
    THEN [a EXCEPT !.sack_duplicates = <<>>, !.sack_needed = FALSE]
    ELSE IF cont \in {"", "flush"} THEN a
    ELSE set_state(a, cont)

\* __run from the completed send at position at to the next suspension
resumed(p, a, at, t) ==
    IF at.cont \in {"sack", "COOKIE_WAIT"}
    THEN Stepped(after_send(a, at.cont), <<>>, AtRecv)
    ELSE IF at.cont = "flush"
    THEN after_chunk(p, receive_resume(a, at.flush, at.channel, at.msgs),
                     at.chunk, at.rest, t)
    ELSE handle_chunks(p, after_send(a, at.cont), at.rest, t)

\* the transport send that __run awaits has completed
Resume(p) ==
    /\ run[p].pc = "send"
    /\ run_step(p, resumed(p, assoc[p], run[p], now), net)
    /\ UNCHANGED <<stopper, dtls_closed, now, injected, last>>

\* stop(): _shutdown up to its first suspension
Stop(p) ==
    /\ stopper[p].pc \in {"none", "returned", "raised"}
    /\ stopper[p].calls < MaxStopCalls
    /\ LET a == assoc[p]
           calls == stopper[p].calls + 1
           shutdown == [Chunk("SHUTDOWN") EXCEPT !.cumulative_tsn = a.last_received_tsn]
       IN  IF a.state = "CLOSED"
           THEN /\ assoc' = [assoc EXCEPT ![p].closed = TRUE]
                /\ stopper' = [stopper EXCEPT ![p] = [pc |-> "returned", calls |-> calls]]
                /\ net' = net
           ELSE IF a.last_received_tsn = None
           THEN \* pack('!L', None) in ShutdownChunk.body raises
                /\ stopper' = [stopper EXCEPT ![p] = [pc |-> "raised", calls |-> calls]]
                /\ UNCHANGED <<assoc, net>>
           ELSE /\ stopper' = [stopper EXCEPT ![p] = [pc |-> "send", calls |-> calls]]
                /\ net' = send_chunk(p, a, <<shutdown>>)
                /\ assoc' = assoc
    /\ UNCHANGED <<run, dtls_closed, now, injected, last, upper>>

\* the transport send that _shutdown awaits has completed
StopResume(p) ==
    /\ stopper[p].pc = "send"
    /\ LET a == set_state(assoc[p], "SHUTDOWN_SENT")
       IN  /\ assoc' = [assoc EXCEPT ![p] = a]
           /\ stopper' = [stopper EXCEPT ![p].pc =
                            IF a.closed THEN "returned" ELSE "waiting"]
    /\ UNCHANGED <<run, net, dtls_closed, now, injected, last, upper>>

\* closed.wait() returns
StopWake(p) ==
    /\ stopper[p].pc = "waiting"
    /\ assoc[p].closed
    /\ stopper' = [stopper EXCEPT ![p].pc = "returned"]
    /\ UNCHANGED <<assoc, run, net, dtls_closed, now, injected, last, upper>>

\* an _abort() that sets the state without sending
abort_silently(p) ==
    /\ aborter[p] = "none"
    /\ run[p].pc # "idle"
    /\ aborter' = [aborter EXCEPT ![p] = "send"]
    /\ UNCHANGED <<assoc, run, last, stopper, net, dtls_closed, now, injected, upper>>

\* _abort() up to its suspension: the send of ABORT
Abort(p) ==
    /\ aborter[p] = "none"
    /\ run[p].pc # "idle"
    /\ aborter' = [aborter EXCEPT ![p] = "send"]
    /\ net' = send_chunk(p, assoc[p], <<Chunk("ABORT")>>)
    /\ UNCHANGED <<assoc, run, last, stopper, dtls_closed, now, injected, upper>>

\* the transport send that _abort awaits has completed
AbortResume(p) ==
    /\ aborter[p] = "send"
    /\ aborter' = [aborter EXCEPT ![p] = "done"]
    /\ assoc' = [assoc EXCEPT ![p] = set_state(@, "CLOSED")]
    /\ UNCHANGED <<run, last, stopper, net, dtls_closed, now, injected, upper>>

-----------------------------------------------------------------------------
\* session.remote_fingerprint = expected (before the first call) and
\* connect(), up to its first suspension or to its end
Connect(expected, result, pending, x509, exported) ==
    /\ session.connect \in {"none", "returned", "raised"}
    /\ session.connects < MaxConnects
    /\ LET s == [session EXCEPT
                    !.connects = @ + 1,
                    !.remote_fingerprint =
                        IF session.connects = 0 THEN expected.text ELSE @,
                    !.fingerprint_set =
                        IF session.connects = 0 THEN expected.set ELSE @]
       IN  session' =
               IF s.state # "CLOSED"
               THEN \* assert self.state == self.State.CLOSED
                    connect_raised(s, "assert")
               ELSE handshake_loop([session_set_state(s, "CONNECTING")
                                       EXCEPT !.error = ""],
                                   result, pending, x509, exported)

\* the transport send that _write_ssl awaits in connect() has completed
ConnectResume(x509, exported) ==
    /\ session.connect = "write"
    /\ session' = handshake_result(session, x509, exported)

\* _recv_next in connect() finds the session closed
ConnectClosed ==
    /\ session.connect = "recv"
    /\ session.closed
    /\ session' = connect_raised(session, "ConnectionError")

\* _recv_next in connect() gets a datagram: a DTLS record that SSL_read
\* takes as the remote shutdown, or one that lets the loop go on
ConnectRecv(shutdown, result, pending, x509, exported) ==
    /\ session.connect = "recv"
    /\ session.rounds < MaxRounds
    /\ session' =
         IF shutdown
         THEN connect_raised([session EXCEPT !.rounds = @ + 1], "ConnectionError")
         ELSE handshake_loop([session EXCEPT !.rounds = @ + 1],
                             result, pending, x509, exported)

\* __run up to its first suspension
SessionRunBegin ==
    /\ session.pump = "scheduled"
    /\ session' = [session EXCEPT !.pump = "recv"]

\* _recv_next in __run finds the session closed
SessionClosed ==
    /\ session.pump = "recv"
    /\ session.closed
    /\ session' = session_run_ends(session)

\* _recv_next in __run gets a datagram: a DTLS record with data for the
\* queue (result > 0), one that SSL_read takes as the remote shutdown
\* (result = 0), or an SRTP packet whose unprotect raises
SessionRecv(kind) ==
    /\ session.pump = "recv"
    /\ session.records < MaxRecords
    /\ session' = IF kind = "data"
                  THEN [session EXCEPT !.records = @ + 1]
                  ELSE session_run_ends([session EXCEPT !.records = @ + 1])

\* close(), up to its suspension or to its end
Close ==
    /\ session.closes < MaxCloses
    /\ session' = [session_close(session) EXCEPT
                        !.closes = @ + 1,
                        !.closed_from = IF session.closes = 0
                                        THEN session.state ELSE @]

\* the transport send that _write_ssl awaits in close() has completed
CloseResume ==
    /\ session.closing > 0
    /\ session' = [session EXCEPT !.closing = @ - 1, !.closed = TRUE]

-----------------------------------------------------------------------------
\* the datagram _recv_next took last: its first byte, the caller, whether the
\* call raised, whether the datagram was put on a queue, and the session
\* before and after
Taken(first_byte, caller, raised, queued) ==
    << [first_byte |-> first_byte, caller |-> caller, raised |-> raised,
        queued |-> queued, before |-> session, after |-> session'] >>

\* connect(), suspended in _recv_next, gets a datagram that is no DTLS record
ConnectRecvDatagram(first_byte, result, pending, x509, exported) ==
    /\ session.connect = "recv"
    /\ session.rounds < MaxRounds
    /\ datagram_kind(first_byte) # "DTLS"
    /\ session' = recv_next_connecting(session, first_byte, result, pending,
                                       x509, exported)
    /\ log' = Taken(first_byte, "connect",
                    datagram_kind(first_byte) = "SRTP", FALSE)

\* __run, suspended in _recv_next, gets a datagram that is no DTLS record
SessionRecvDatagram(first_byte, valid) ==
    /\ session.pump = "recv"
    /\ session.records < MaxRecords
    /\ datagram_kind(first_byte) # "DTLS"
    /\ session' = recv_next_running(session, first_byte, valid)
    /\ log' = Taken(first_byte, "__run",
                    datagram_kind(first_byte) = "SRTP" /\ ~valid,
                    datagram_kind(first_byte) = "SRTP" /\ valid)

(* The environment *)

\* the values the timestamp source takes
Times == {0, COOKIE_LIFETIME, COOKIE_LIFETIME + 1}

\* time passes
SetClock(t) ==
    /\ t > now
    /\ now' = t
    /\ UNCHANGED <<assoc, run, stopper, net, dtls_closed, injected, last, upper>>

\* the clock advances while a handshake is under way
Tick ==
    /\ now < MaxDrift
    /\ now' = now + 1
    /\ UNCHANGED <<assoc, run, stopper, net, dtls_closed, injected, last, upper>>

\* the DTLS session under the association closes
DtlsClose(p) ==
    /\ ~dtls_closed[p]
    /\ dtls_closed' = [dtls_closed EXCEPT ![p] = TRUE]
    /\ UNCHANGED <<assoc, run, stopper, net, now, injected, last, upper>>

\* A tag that is neither 0 nor a local tag of a peer
ForeignTag == local_verification_tag["server"] + 1

CookieEcho(b) == [Chunk("COOKIE_ECHO") EXCEPT !.body = b]

\* cookie bodies a third party can send to p: replayed ones (any stamp), one
\* of the right length under a MAC of another key, one of 7 bytes
EchoBodies(p) ==
    {mint_cookie(hmac_key[p], t) : t \in Times}
        \cup {mint_cookie("kx", 0), Bytes(7, 0, <<>>),
              Bytes(25, 0, hmac_sha1(hmac_key[p], 0))}

SingleChunks(p) ==
    {Chunk(t) : t \in {"COOKIE_ACK", "ERROR", "ABORT", "SHUTDOWN", "SHUTDOWN_ACK",
                       "SHUTDOWN_COMPLETE", "HEARTBEAT", "SACK"}}
        \cup {CookieEcho(b) : b \in EchoBodies(p)}
        \cup {[Chunk("INIT_ACK") EXCEPT !.initiate_tag = tag,
                 !.params = << <<STATE_COOKIE, mint_cookie("kx", 0)>> >>] :
                tag \in {ForeignTag, local_verification_tag[Other(p)]}}
        \cup {[Chunk("DATA") EXCEPT !.tsn = n] : n \in {0, 1}}

InitFrom(tag) == [Chunk("INIT") EXCEPT !.initiate_tag = tag, !.initial_tsn = 1]

\* datagrams Packet.parse rejects: b'garbage', 11 bytes, and an ABORT for
\* either peer with one bit flipped
Undecodable ==
    {[length |-> n, checksum_ok |-> FALSE, verification_tag |-> 0, chunks |-> <<>>] :
        n \in {7, 11}}
    \cup {[Datagram(tag, <<Chunk("ABORT")>>) EXCEPT !.checksum_ok = FALSE] :
            tag \in {local_verification_tag[q] : q \in Peers}}

\* the datagrams a third party can send to p
Injectable(p) ==
    Undecodable
    \* packets that pass the tag check
    \cup {Datagram(local_verification_tag[p], <<c>>) : c \in SingleChunks(p)}
    \cup {Datagram(0, <<InitFrom(ForeignTag)>>)}
    \cup {Datagram(local_verification_tag[p], cs) :
            cs \in {<<Chunk("ABORT"), Chunk("COOKIE_ACK")>>,
                    <<Chunk("HEARTBEAT"), Chunk("ABORT")>>}}
    \* packets that fail it
    \cup {Datagram(tag, <<c>>) : tag \in {0, ForeignTag},
                                 c \in {Chunk("ABORT"), Chunk("COOKIE_ACK"),
                                        CookieEcho(mint_cookie(hmac_key[p], 0))}}
    \cup {Datagram(ForeignTag, <<InitFrom(ForeignTag)>>)}
    \* INIT bundled with another chunk
    \cup {Datagram(tag, <<InitFrom(ForeignTag), Chunk("ABORT")>>) :
            tag \in {0, ForeignTag}}

\* the next datagram is one a third party sent: it arrives when the
\* association is waiting for one, ahead of what the peer has sent
RecvInjected(p, d) ==
    /\ injected < MaxInject
    /\ injected' = injected + 1
    /\ Receive(p, d, net)

\* A flush that asyncio.ensure_future has scheduled, and one suspended in a
\* send.
Scheduled == [pc |-> "scheduled", flush |-> NoFlush]

Sending(flush) == [pc |-> "send", flush |-> flush]

\* a sequence without its k-th element
Without(seq, k) == SubSeq(seq, 1, k - 1) \o SubSeq(seq, k + 1, Len(seq))

\* the labels of the channels that are opened: "c" and "\u00e9"
Labels == {<<99>>, <<233>>}

\* RTCDataChannel(transport, RTCDataChannelParameters(label=label)): the
\* channel has no id and _data_channel_open queues its OPEN and schedules a
\* flush
CreateChannel(p, label) ==
    /\ LET a == [assoc[p] EXCEPT !.channels = Append(@, new_channel(None, label, <<>>))]
       IN  assoc' = [assoc EXCEPT ![p] = data_channel_open(a, Len(a.channels))]
    /\ tasks' = [tasks EXCEPT ![p] = Append(@, Scheduled)]
    /\ UNCHANGED <<run, last, stopper, net, dtls_closed, now, injected, upper, requested>>

\* the k-th task after r, the outcome of its flush up to the next suspension
flushed(p, k, r) ==
    /\ assoc' = [assoc EXCEPT ![p] = r.a]
    /\ net' = send_chunk(p, r.a, r.out)
    /\ tasks' = [tasks EXCEPT ![p] =
                    IF r.done THEN Without(@, k)
                    ELSE [@ EXCEPT ![k] = Sending(r.flush)]]

\* a scheduled _data_channel_flush up to its first suspension, or to its end
FlushBegin(p, k) ==
    /\ tasks[p][k].pc = "scheduled"
    /\ flushed(p, k, data_channel_flush(assoc[p]))
    /\ UNCHANGED <<run, last, stopper, dtls_closed, now, injected, upper, requested>>

\* the transport send that a _data_channel_flush awaits has completed
FlushResume(p, k) ==
    /\ tasks[p][k].pc = "send"
    /\ flushed(p, k, flush_resume(assoc[p], tasks[p][k].flush))
    /\ UNCHANGED <<run, last, stopper, dtls_closed, now, injected, upper, requested>>

\* the values that are sent: one of each kind, and two byte strings that
\* take two fragments
Values ==
    {Str(<<>>), Str(<<233>>), BytesOf(<<>>), BytesOf(<<7>>),
     BytesOf([i \in 1..(USERDATA_MAX_LENGTH + 1) |-> 1]),
     BytesOf([i \in 1..(USERDATA_MAX_LENGTH + 1) |-> 2])}

\* self._data_channel_queue.append((channel, pp_id, user_data))
queue_payload(a, c, payload) ==
    queue_append(a, [channel |-> c, protocol |-> payload.pp_id,
                     user_data |-> payload.user_data])

\* a coroutine of p awaits a flush of its own: r is its outcome up to the
\* next suspension
flush_called(p, r) ==
    /\ assoc' = [assoc EXCEPT ![p] = r.a]
    /\ net' = send_chunk(p, r.a, r.out)
    /\ tasks' = [tasks EXCEPT ![p] =
                    IF r.done THEN @ ELSE Append(@, Sending(r.flush))]

\* _data_channel_send(channel, data) for the open channel at index c, up to
\* the first suspension of the flush it awaits or to its end
DataChannelSend(p, c, data) ==
    /\ requested' = [requested EXCEPT ![p] = Append(@, [channel |-> c, data |-> data])]
    /\ flush_called(p, data_channel_flush(
                          queue_payload(assoc[p], c, payload_of(data))))
    /\ UNCHANGED <<run, last, stopper, dtls_closed, now, injected, upper>>

\* A _send that the layer above awaits, suspended in the send of a fragment.
SendingAlone(sd) == [pc |-> "alone", flush |-> [NoFlush EXCEPT !.send = sd]]

\* the layer above awaits a _send of p: r is its outcome up to the first
\* suspension
send_called(p, r) ==
    /\ assoc' = [assoc EXCEPT ![p] = r.a]
    /\ net' = send_chunk(p, r.a, r.out)
    /\ tasks' = [tasks EXCEPT ![p] =
                    IF r.done THEN @ ELSE Append(@, SendingAlone(r.send))]

\* the k-th task after r, the outcome of its _send up to the next suspension
send_resumed(p, k, r) ==
    /\ assoc' = [assoc EXCEPT ![p] = r.a]
    /\ net' = send_chunk(p, r.a, r.out)
    /\ tasks' = [tasks EXCEPT ![p] =
                    IF r.done THEN Without(@, k)
                    ELSE [@ EXCEPT ![k] = SendingAlone(r.send)]]

\* _send(stream_id, pp_id, user_data), called by the layer above, up to its
\* first suspension or to its end
Send(p, stream_id, pp_id, user_data) ==
    /\ send_called(p, send_begin(assoc[p], stream_id, pp_id, user_data))
    /\ UNCHANGED <<run, last, stopper, dtls_closed, now, injected, upper, requested>>

\* the transport send that a _send of the layer above awaits has completed
SendResume(p, k) ==
    /\ tasks[p][k].pc = "alone"
    /\ send_resumed(p, k, send_resume(assoc[p], tasks[p][k].flush.send))
    /\ UNCHANGED <<run, last, stopper, dtls_closed, now, injected, upper, requested>>

\* _set_state(ESTABLISHED) schedules a flush: what becomes of tasks in a
\* step of __run
Spawned ==
    tasks' = [p \in Peers |->
                IF assoc[p].state # "ESTABLISHED" /\ assoc'[p].state = "ESTABLISHED"
                THEN Append(tasks[p], Scheduled) ELSE tasks[p]]

\* The DATA chunks handed to an InboundStream on its own: TSNs on both sides
\* of the wrap, every combination of the fragment flags, and the TSN as the
\* user data.
StreamChunks ==
    {[Chunk("DATA") EXCEPT !.tsn = tsn, !.stream_seq = seq, !.flags = flags,
                           !.stream_id = 1, !.protocol = WEBRTC_BINARY,
                           !.user_data = <<tsn>>] :
        tsn \in {SCTP_TSN_MODULO - 2, SCTP_TSN_MODULO - 1, 0, 1},
        seq \in 0..MaxSeq,
        flags \in 0..(SCTP_DATA_FIRST_FRAG + SCTP_DATA_LAST_FRAG)}

\* stream.add_chunk(chunk)
AddChunk(chunk) ==
    /\ Len(inbound.reassembly) < MaxBuffered
    /\ inbound' = add_chunk(inbound, chunk)
    /\ popped' = NoPop

\* list(stream.pop_messages())
PopMessages ==
    LET r == pop_messages(inbound)
    IN  /\ inbound' = r.stream
        /\ popped' = [before |-> inbound, messages |-> r.messages, called |-> TRUE]

-----------------------------------------------------------------------------
(* Specifications *)

\* the variables of the association and its coroutines
core == <<assoc, run, last, stopper, net, dtls_closed, now, injected, upper>>

\* the variables beyond the association and its coroutines
\* the variables of what is looked at on its own, apart from the stream
alone == <<framed, coded, compared, session>>

beyond == <<tasks, requested, inbound, popped, alone>>

\* the variables that only some specifications let change
others == <<aborter, beyond>>

\* the chunk types the peers send, in order
LogSent ==
    LET grown == {q \in Peers : Len(net'[q]) > Len(net[q])}
    IN  log' = IF grown = {} THEN log
               ELSE LET q == CHOOSE q \in grown : TRUE
                    IN  Append(log, net'[q][Len(net'[q])].chunks[1].type)

\* Two started associations, time passing, and a third party that sends
\* datagrams of its own to both.
Next ==
    \/ \E p \in Peers : Start(p) /\ UNCHANGED <<log, others>>
    \/ \E p \in Peers : RunBegin(p) /\ UNCHANGED <<log, others>>
    \/ \E p \in Peers : RecvData(p) /\ UNCHANGED <<log, others>>
    \/ \E p \in Peers : RecvClosed(p) /\ UNCHANGED <<log, others>>
    \/ \E p \in Peers : Resume(p) /\ UNCHANGED <<log, others>>
    \/ \E t \in Times : SetClock(t) /\ UNCHANGED <<log, others>>
    \/ \E p \in Peers : \E d \in Injectable(p) : RecvInjected(p, d) /\ UNCHANGED <<log, others>>

Spec == Init /\ [][Next]_vars

\* Two associations with start() and stop() called at any time, within the
\* lifetime of the cookies, and a third party that sends datagrams that do
\* not decode.
StopNext ==
    \/ \E p \in Peers : Start(p) /\ UNCHANGED <<log, others>>
    \/ \E p \in Peers : RunBegin(p) /\ UNCHANGED <<log, others>>
    \/ \E p \in Peers : RecvData(p) /\ UNCHANGED <<log, others>>
    \/ \E p \in Peers : RecvClosed(p) /\ UNCHANGED <<log, others>>
    \/ \E p \in Peers : Resume(p) /\ UNCHANGED <<log, others>>
    \/ \E p \in Peers : Stop(p) /\ UNCHANGED <<log, others>>
    \/ \E p \in Peers : StopResume(p) /\ UNCHANGED <<log, others>>
    \/ \E p \in Peers : StopWake(p) /\ UNCHANGED <<log, others>>
    \/ \E p \in Peers : \E d \in Undecodable : RecvInjected(p, d) /\ UNCHANGED <<log, others>>

StopSpec == Init /\ [][StopNext]_vars

BothEstablished == \A p \in Peers : assoc[p].state = "ESTABLISHED"

\* Two associations over a lossless in-order channel with nothing injected:
\* both are started, the handshake runs within the cookie lifetime, and
\* stop() is called only once both are ESTABLISHED.
LiveNext ==
    \/ \E p \in Peers : Start(p) /\ LogSent /\ UNCHANGED others
    \/ \E p \in Peers : RunBegin(p) /\ LogSent /\ UNCHANGED others
    \/ \E p \in Peers : RecvData(p) /\ LogSent /\ UNCHANGED others
    \/ \E p \in Peers : RecvClosed(p) /\ LogSent /\ UNCHANGED others
    \/ \E p \in Peers : Resume(p) /\ LogSent /\ UNCHANGED others
    \/ \E p \in Peers : BothEstablished /\ Stop(p) /\ LogSent /\ UNCHANGED others
    \/ \E p \in Peers : StopResume(p) /\ LogSent /\ UNCHANGED others
    \/ \E p \in Peers : StopWake(p) /\ LogSent /\ UNCHANGED others
    \/ Tick /\ LogSent /\ UNCHANGED others

LiveSpec ==
    /\ Init
    /\ [][LiveNext]_vars
    /\ \A p \in Peers :
        /\ WF_vars(Start(p) /\ LogSent /\ UNCHANGED others)
        /\ WF_vars(RunBegin(p) /\ LogSent /\ UNCHANGED others)
        /\ WF_vars(RecvData(p) /\ LogSent /\ UNCHANGED others)
        /\ WF_vars(RecvClosed(p) /\ LogSent /\ UNCHANGED others)
        /\ WF_vars(Resume(p) /\ LogSent /\ UNCHANGED others)
        /\ WF_vars(StopResume(p) /\ LogSent /\ UNCHANGED others)
        /\ WF_vars(StopWake(p) /\ LogSent /\ UNCHANGED others)

\* Two associations over a lossless in-order channel with nothing injected,
\* as in LiveNext, over DTLS sessions that close at any time.
CloseNext ==
    \/ \E p \in Peers : Start(p) /\ UNCHANGED <<log, others>>
    \/ \E p \in Peers : RunBegin(p) /\ UNCHANGED <<log, others>>
    \/ \E p \in Peers : RecvData(p) /\ UNCHANGED <<log, others>>
    \/ \E p \in Peers : RecvClosed(p) /\ UNCHANGED <<log, others>>
    \/ \E p \in Peers : RecvConnectionError(p) /\ UNCHANGED <<log, others>>
    \/ \E p \in Peers : Resume(p) /\ UNCHANGED <<log, others>>
    \/ \E p \in Peers : BothEstablished /\ Stop(p) /\ UNCHANGED <<log, others>>
    \/ \E p \in Peers : StopResume(p) /\ UNCHANGED <<log, others>>
    \/ \E p \in Peers : StopWake(p) /\ UNCHANGED <<log, others>>
    \/ \E p \in Peers : DtlsClose(p) /\ UNCHANGED <<log, others>>
    \/ Tick /\ UNCHANGED <<log, others>>

CloseSpec ==
    /\ Init
    /\ [][CloseNext]_vars
    /\ \A p \in Peers :
        /\ WF_vars(Start(p) /\ UNCHANGED <<log, others>>)
        /\ WF_vars(RunBegin(p) /\ UNCHANGED <<log, others>>)
        /\ WF_vars(RecvData(p) /\ UNCHANGED <<log, others>>)
        /\ WF_vars(RecvClosed(p) /\ UNCHANGED <<log, others>>)
        /\ WF_vars(RecvConnectionError(p) /\ UNCHANGED <<log, others>>)
        /\ WF_vars(Resume(p) /\ UNCHANGED <<log, others>>)
        /\ WF_vars(StopResume(p) /\ UNCHANGED <<log, others>>)
        /\ WF_vars(StopWake(p) /\ UNCHANGED <<log, others>>)

\* the state of p when _abort() is called on it
LogAbort(p) == log' = Append(log, assoc[p].state)

\* Two associations over a lossless in-order channel with nothing injected:
\* _abort() is called once, on a started association at any time, stop() once
\* both are ESTABLISHED.
AbortNext ==
    \/ \E p \in Peers : Start(p) /\ UNCHANGED log /\ UNCHANGED others
    \/ \E p \in Peers : RunBegin(p) /\ UNCHANGED log /\ UNCHANGED others
    \/ \E p \in Peers : RecvData(p) /\ UNCHANGED log /\ UNCHANGED others
    \/ \E p \in Peers : RecvClosed(p) /\ UNCHANGED log /\ UNCHANGED others
    \/ \E p \in Peers : Resume(p) /\ UNCHANGED log /\ UNCHANGED others
    \/ \E p \in Peers : BothEstablished /\ Stop(p) /\ UNCHANGED log /\ UNCHANGED others
    \/ \E p \in Peers : StopResume(p) /\ UNCHANGED log /\ UNCHANGED others
    \/ \E p \in Peers : StopWake(p) /\ UNCHANGED log /\ UNCHANGED others
    \/ \E p \in Peers : log = <<>> /\ Abort(p) /\ LogAbort(p) /\ UNCHANGED beyond
    \/ \E p \in Peers : AbortResume(p) /\ UNCHANGED <<log, beyond>>

AbortSpec ==
    /\ Init
    /\ [][AbortNext]_vars
    /\ \A p \in Peers :
        /\ WF_vars(Start(p) /\ UNCHANGED log /\ UNCHANGED others)
        /\ WF_vars(RunBegin(p) /\ UNCHANGED log /\ UNCHANGED others)
        /\ WF_vars(RecvData(p) /\ UNCHANGED log /\ UNCHANGED others)
        /\ WF_vars(RecvClosed(p) /\ UNCHANGED log /\ UNCHANGED others)
        /\ WF_vars(Resume(p) /\ UNCHANGED log /\ UNCHANGED others)
        /\ WF_vars(StopResume(p) /\ UNCHANGED log /\ UNCHANGED others)
        /\ WF_vars(StopWake(p) /\ UNCHANGED log /\ UNCHANGED others)
        /\ WF_vars(AbortResume(p) /\ UNCHANGED <<log, beyond>>)

\* the variables of the InboundStream and of the codecs on their own
reasm == <<inbound, popped, alone>>

\* the steps of __run and the start of the flushes it asks for
RunSteps(p) ==
    \/ Start(p) /\ UNCHANGED <<log, others>>
    \/ RunBegin(p) /\ UNCHANGED <<log, others>>
    \/ RecvData(p) /\ Spawned /\ UNCHANGED <<log, aborter, requested, reasm>>
    \/ Resume(p) /\ Spawned /\ UNCHANGED <<log, aborter, requested, reasm>>
    \/ \E k \in 1..Len(tasks[p]) :
            FlushBegin(p, k) /\ UNCHANGED <<log, aborter, reasm>>

\* the steps of the coroutines of a transport with data channels: __run and
\* the flushes
ChannelSteps(p) ==
    \/ RunSteps(p)
    \/ \E k \in 1..Len(tasks[p]) :
            FlushResume(p, k) /\ UNCHANGED <<log, aborter, reasm>>

\* the channels of a that it created itself: those that wait for their id
\* and those that were given one
local_channels(a) ==
    {c \in 1..Len(a.channels) :
        \/ a.channels[c].id = None
        \/ \E i \in 1..Len(a.allocated) : a.allocated[i] = a.channels[c].id}

\* Two associations over a lossless in-order channel with nothing injected:
\* both are started, and once both are ESTABLISHED one of them creates
\* channels at any time, less than MaxChannels in all.
ChannelNext ==
    \/ \E p \in Peers : ChannelSteps(p)
    \/ \E p \in Peers : \E label \in Labels :
            /\ BothEstablished
            /\ local_channels(assoc[Other(p)]) = {}
            /\ Cardinality(local_channels(assoc[p])) < MaxChannels
            /\ CreateChannel(p, label) /\ UNCHANGED <<log, aborter, reasm>>

ChannelSpec ==
    /\ Init
    /\ [][ChannelNext]_vars
    /\ \A p \in Peers : WF_vars(ChannelSteps(p))

\* nothing is left to do: no flush is pending, and every __run waits for a
\* datagram with none queued, or has ended with an exception
Quiet ==
    \A p \in Peers :
        /\ tasks[p] = <<>>
        /\ \/ run[p].pc = "recv" /\ net[p] = <<>>
           \/ run[p].pc = "crashed"

\* Two associations over a lossless in-order channel with nothing injected:
\* both are started, and once both are ESTABLISHED both create channels, each
\* less than MaxOpens and each one when nothing is left to do.
AllocNext ==
    \/ \E p \in Peers : ChannelSteps(p)
    \/ \E p \in Peers : \E label \in Labels :
            /\ BothEstablished
            /\ Quiet
            /\ Cardinality(local_channels(assoc[p])) < MaxOpens
            /\ CreateChannel(p, label) /\ UNCHANGED <<log, aborter, reasm>>

AllocSpec == Init /\ [][AllocNext]_vars

\* The datagrams with a DCEP OPEN of its own making that a party who knows
\* the tag and the sequence numbers can send to p: the next TSN, the next
\* stream_seq of a stream that is registered or not, of either parity.
ForgedOpens(p) ==
    IF assoc[p].last_received_tsn = None THEN {}
    ELSE {Datagram(local_verification_tag[p],
                   <<[Chunk("DATA") EXCEPT
                        !.flags = SCTP_DATA_FIRST_FRAG + SCTP_DATA_LAST_FRAG,
                        !.tsn = tsn_plus_one(assoc[p].last_received_tsn),
                        !.stream_id = stream_id,
                        !.stream_seq = Get(assoc[p].inbound_streams, stream_id,
                                           InboundStream).sequence_number,
                        !.protocol = WEBRTC_DCEP,
                        !.user_data = open_message(<<99>>, <<>>)]>>) :
            stream_id \in 0..3}

\* Two associations with one of them creating channels, as in ChannelNext,
\* and a third party that sends a DCEP OPEN of its own making to either.
DcepNext ==
    \/ ChannelNext
    \/ \E p \in Peers : \E d \in ForgedOpens(p) :
            RecvInjected(p, d) /\ Spawned /\ UNCHANGED <<log, aborter, requested, reasm>>

DcepSpec == Init /\ [][DcepNext]_vars

\* the streams, the protocol ids and the payloads of the messages the layer
\* above sends: a payload of one fragment and one of two
Streams == {0, 1}

Protocols == {WEBRTC_STRING, WEBRTC_BINARY}

Payloads == {<<7>>, [i \in 1..(USERDATA_MAX_LENGTH + 1) |-> 1]}

\* the _send calls of both peers so far
SendCalls == Len(assoc["client"].sent) + Len(assoc["server"].sent)

\* Two associations over a lossless in-order channel with nothing injected:
\* both are started, and once both are ESTABLISHED the layer above calls
\* _send at any time, also while an earlier call is suspended, less than
\* MaxSends times in all.
DataNext ==
    \/ \E p \in Peers : RunSteps(p)
    \/ \E p \in Peers : \E k \in 1..Len(tasks[p]) :
            SendResume(p, k) /\ UNCHANGED <<log, aborter, reasm>>
    \/ \E p \in Peers : \E stream_id \in Streams : \E pp_id \in Protocols :
       \E user_data \in Payloads :
            /\ BothEstablished
            /\ SendCalls < MaxSends
            /\ Send(p, stream_id, pp_id, user_data)
            /\ UNCHANGED <<log, aborter, reasm>>

DataSpec == Init /\ [][DataNext]_vars

\* the payloads whose fragments are looked at: one byte, one full fragment,
\* one byte more, and two fragments and one byte, of bytes that all differ
Fragmented ==
    {[i \in 1..n |-> i] : n \in {1, USERDATA_MAX_LENGTH, USERDATA_MAX_LENGTH + 1,
                                 2 * USERDATA_MAX_LENGTH + 1}}

\* the step records the packet that p hands to the transport, if it does
Emitted(p) ==
    log' = IF net'[Other(p)] = net[Other(p)] THEN log
           ELSE Append(log, [peer |-> p,
                             packet |-> net'[Other(p)][Len(net'[Other(p)])]])

\* Two associations over a lossless in-order channel, as in DataNext, with
\* binary messages that one of the two sends, and a record of the packets
\* that _send hands to the transport, in the order in which it does.
FragNext ==
    \/ \E p \in Peers : RunSteps(p)
    \/ \E p \in Peers : \E k \in 1..Len(tasks[p]) :
            SendResume(p, k) /\ Emitted(p) /\ UNCHANGED <<aborter, reasm>>
    \/ \E p \in Peers : \E stream_id \in Streams : \E user_data \in Fragmented :
            /\ BothEstablished
            /\ SendCalls < MaxSends
            /\ assoc[Other(p)].sent = <<>>
            /\ Send(p, stream_id, WEBRTC_BINARY, user_data)
            /\ Emitted(p)
            /\ UNCHANGED <<aborter, reasm>>

FragSpec == Init /\ [][FragNext]_vars

\* the TSNs at the given distances after the one p received last
TsnsAfter(p, distances) ==
    {(assoc[p].last_received_tsn + k) % SCTP_TSN_MODULO : k \in distances}

\* TSNs on every side of the one p received last: that one, the next, the
\* one after it, the ones around the opposite point of the circle, and the
\* one before
NearTsns(p) ==
    TsnsAfter(p, {0, 1, 2, SCTP_TSN_MODULO \div 2 - 1, SCTP_TSN_MODULO \div 2,
                  SCTP_TSN_MODULO \div 2 + 1, SCTP_TSN_MODULO - 1})

\* a whole message of one byte for stream 0 of p, in the sequence
WholeMessage(p, tsn) ==
    [Chunk("DATA") EXCEPT
        !.flags = SCTP_DATA_FIRST_FRAG + SCTP_DATA_LAST_FRAG,
        !.tsn = tsn,
        !.stream_seq = Get(assoc[p].inbound_streams, 0,
                           InboundStream).sequence_number,
        !.protocol = WEBRTC_BINARY,
        !.user_data = <<7>>]

\* The packets of DATA chunks a third party can send to p: one chunk that
\* is a whole message, the first fragment of one, or a DCEP ACK for stream 3
\* (no channel has it), with any of NearTsns; two whole messages with TSNs
\* at, next to and after the one received last.
ForgedData(p) ==
    IF assoc[p].last_received_tsn = None THEN {}
    ELSE {Datagram(local_verification_tag[p], <<c>>) :
            c \in {WholeMessage(p, tsn) : tsn \in NearTsns(p)}
                \cup {[WholeMessage(p, tsn) EXCEPT !.flags = SCTP_DATA_FIRST_FRAG] :
                        tsn \in NearTsns(p)}
                \cup {[WholeMessage(p, tsn) EXCEPT
                          !.stream_id = 3, !.stream_seq = 0,
                          !.protocol = WEBRTC_DCEP,
                          !.user_data = <<DATA_CHANNEL_ACK>>] :
                        tsn \in NearTsns(p)}}
         \cup {Datagram(local_verification_tag[p],
                        <<WholeMessage(p, first), WholeMessage(p, second)>>) :
                first \in TsnsAfter(p, {0, 1, 2}),
                second \in TsnsAfter(p, {0, 1, 2, SCTP_TSN_MODULO \div 2})}

\* the next datagram is a packet of DATA chunks a third party sent
RecvForged(p, d) ==
    /\ injected < MaxData
    /\ injected' = injected + 1
    /\ Receive(p, d, net)

\* Two associations over a lossless in-order channel: both are started, and
\* once both are ESTABLISHED a third party that knows the tags sends packets
\* of DATA chunks to either.
AcceptNext ==
    \/ \E p \in Peers : RunSteps(p)
    \/ \E p \in Peers : \E d \in ForgedData(p) :
            /\ BothEstablished
            /\ RecvForged(p, d)
            /\ Spawned
            /\ UNCHANGED <<log, aborter, requested, reasm>>

AcceptSpec == Init /\ [][AcceptNext]_vars

\* An InboundStream on its own: chunks are added in any order, and
\* pop_messages() is called at any time.
ReasmNext ==
    \/ \E chunk \in StreamChunks :
            AddChunk(chunk) /\ UNCHANGED <<core, aborter, log, tasks, requested, alone>>
    \/ PopMessages /\ UNCHANGED <<core, aborter, log, tasks, requested, alone>>

ReasmSpec == Init /\ [][ReasmNext]_vars

\* Two associations over a lossless in-order channel with nothing injected:
\* the client creates channels before it is started and once both are
\* ESTABLISHED, at most MaxQueued in all, and stop() is called on it once
\* both are ESTABLISHED, also while a flush is suspended in a transport
\* send.  The labels are "c" and "hello": the OPEN of the second
\* takes two fragments.
GateNext ==
    \/ \E p \in Peers : ChannelSteps(p)
    \/ \E label \in {<<99>>, <<104, 101, 108, 108, 111>>} :
            /\ run["client"].pc = "idle" \/ BothEstablished
            /\ Cardinality(local_channels(assoc["client"])) < MaxQueued
            /\ CreateChannel("client", label)
            /\ UNCHANGED <<log, aborter, reasm>>
    \/ BothEstablished /\ Stop("client") /\ UNCHANGED <<log, others>>
    \/ StopResume("client") /\ UNCHANGED <<log, others>>
    \/ StopWake("client") /\ UNCHANGED <<log, others>>

GateSpec == Init /\ [][GateNext]_vars

\* Two associations over a lossless in-order channel with nothing injected:
\* once both are ESTABLISHED the client creates one channel and sends one
\* value on it, at any time: also while a flush is scheduled or suspended
\* in a transport send.
OnceNext ==
    \/ \E p \in Peers : ChannelSteps(p)
    \/ /\ BothEstablished
       /\ assoc["client"].channels = <<>>
       /\ CreateChannel("client", <<99>>) /\ UNCHANGED <<log, aborter, reasm>>
    \/ /\ BothEstablished
       /\ assoc["client"].channels # <<>>
       /\ requested["client"] = <<>>
       /\ DataChannelSend("client", 1, BytesOf(<<7>>))
       /\ UNCHANGED <<log, aborter, reasm>>

OnceSpec == Init /\ [][OnceNext]_vars

\* Two associations over a lossless in-order channel with nothing injected:
\* once both are ESTABLISHED the layer above the client calls _send on
\* stream 0, with no bytes or with one, at most MaxSends times and each time
\* after the call before it has ended.
EmptyNext ==
    \/ \E p \in Peers : RunSteps(p)
    \/ \E p \in Peers : \E k \in 1..Len(tasks[p]) :
            SendResume(p, k) /\ UNCHANGED <<log, aborter, reasm>>
    \/ \E user_data \in {<<>>, <<7>>} :
            /\ BothEstablished
            /\ Len(assoc["client"].sent) < MaxSends
            /\ tasks["client"] = <<>>
            /\ Send("client", 0, WEBRTC_BINARY, user_data)
            /\ UNCHANGED <<log, aborter, reasm>>

EmptySpec == Init /\ [][EmptyNext]_vars

\* The framing of the values of a channel on its own: what
\* _data_channel_send queues for a value, handed to _data_channel_receive
\* of a transport that has a channel registered on the stream.

\* a transport whose peer opened a channel on stream 1
registered ==
    [new_assoc("server") EXCEPT
        !.state = "ESTABLISHED", !.data_channel_id = 0,
        !.channels = <<[new_channel(1, <<99>>, <<>>)
                           EXCEPT !.readyState = "open"]>>,
        !.data_channels = Put(<<>>, 1, 1)]

\* code points at the ends of the ranges of the UTF-8 widths
CodePoints ==
    {0, 65, 127, 128, 233, 2047, 2048, 8364, 55295, 57344, 65535, 65536,
     128512, 1114111}

FramedBytes == {0, 65, 128, 195, 255}

\* the strings and byte strings of at most MaxFramed elements
SeqsUpTo(S, n) == UNION {[1..k -> S] : k \in 0..n}

FramedValues ==
    {Str(chars) : chars \in SeqsUpTo(CodePoints, MaxFramed)}
    \cup {BytesOf(bytes) : bytes \in SeqsUpTo(FramedBytes, MaxFramed)}

\* the payload of a value and what the receiver makes of it
framing(data, payload, r) ==
    [value |-> data, pp_id |-> payload.pp_id, user_data |-> payload.user_data,
     up |-> r.up, crash |-> r.crash, called |-> TRUE]

received_payload(data, payload) ==
    framing(data, payload,
            data_channel_receive(registered, registered.channels[1].id,
                                 payload.pp_id,
                                 payload.user_data))

Frame(data) == framed' = received_payload(data, payload_of(data))

\* one value is drawn and framed
FramingNext ==
    /\ framed = NoFrame
    /\ \E data \in FramedValues :
        Frame(data) /\ UNCHANGED <<core, aborter, log, tasks, requested,
                                   inbound, popped, coded, compared, session>>

FramingSpec == Init /\ [][FramingNext]_vars

\* The codec of packets on its own: Packet.parse applied to a byte string,
\* with the packet it returns encoded again, and Packet.__bytes__ applied to
\* a packet, with its bytes parsed again.

\* chunks as a peer may put them on the wire: with and without padding, with
\* padding that is not zero, of a type that is no key of CHUNK_TYPES, with
\* a body shorter than the fields of the class, with a length below 4
RawChunks ==
    {<<11, 0, 0, 4>>,
     <<10, 0, 0, 7, 1, 2, 3, 0>>,
     <<10, 0, 0, 7, 1, 2, 3, 9>>,
     <<15, 0, 0, 4>>,
     <<200, 1, 0, 6, 1, 2, 0, 0>>,
     <<0, 3, 0, 17, 0, 0, 0, 9, 0, 1, 0, 0, 0, 0, 0, 51, 65, 0, 0, 0>>,
     <<0, 3, 0, 16, 127, 255, 255, 255, 0, 1, 0, 0, 0, 0, 0, 56>>,
     <<0, 0, 0, 4>>,
     <<0, 0, 0, 8, 1, 2, 3, 4>>,
     <<1, 0, 0, 26, 0, 0, 0, 1, 0, 0, 4, 0, 0, 2, 0, 3, 0, 0, 0, 5,
       0, 7, 0, 6, 8, 9, 0, 0>>,
     <<2, 0, 0, 28, 0, 0, 0, 1, 0, 0, 4, 0, 0, 2, 0, 3, 0, 0, 0, 5,
       0, 7, 0, 6, 8, 9, 0, 0>>,
     <<3, 0, 0, 24, 0, 0, 0, 5, 0, 0, 4, 0, 0, 1, 0, 1, 0, 2, 0, 3,
       0, 0, 0, 4>>,
     <<3, 0, 0, 16, 0, 0, 0, 5, 0, 0, 4, 0, 0, 1, 0, 0>>,
     <<7, 0, 0, 8, 0, 0, 0, 5>>,
     <<4, 0, 0, 12, 0, 1, 0, 8, 1, 2, 3, 4>>,
     <<4, 0, 0, 8, 0, 1, 0, 0>>,
     <<6, 1, 0, 4>>,
     <<14, 0, 0, 2>>,
     <<11, 0, 0, 0>>}

\* data with the bytes of its checksum in the opposite order
unswapped(data) ==
    Slice(data, 0, 8) \o <<data[12], data[11], data[10], data[9]>>
    \o Slice(data, 12, Len(data))

\* source port, destination port and verification tag, and room for the
\* checksum
WireHeader == pack_H(5000) \o pack_H(5001) \o pack_L(66051) \o <<0, 0, 0, 0>>

\* byte strings a datagram may hold: packets of at most MaxCoded chunks
\* with their checksum, packets followed by bytes that are no chunk,
\* packets with another checksum, less than a header
Wires ==
    {with_checksum(WireHeader \o pack_all(chunks)) :
        chunks \in SeqsUpTo(RawChunks, MaxCoded)}
    \cup {with_checksum(WireHeader \o chunk \o <<1, 2>>) : chunk \in RawChunks}
    \cup {WireHeader \o chunk : chunk \in RawChunks}
    \cup {unswapped(with_checksum(WireHeader \o chunk)) : chunk \in RawChunks}
    \cup {Slice(with_checksum(WireHeader), 0, n) : n \in 0..11}

\* chunks of every class as the transport builds them: the fields set on a
\* new object
BuiltChunks ==
    {[type |-> 0, flags |-> 3, tsn |-> 2147483647, stream_id |-> 65535,
      stream_seq |-> 258, protocol |-> 51, user_data |-> user_data] :
        user_data \in {<<>>, <<65>>, <<1, 2, 3, 4>>}}
    \cup {[type |-> type, flags |-> 0, initiate_tag |-> 66051,
           advertised_rwnd |-> 131072, outbound_streams |-> 256,
           inbound_streams |-> 2048, initial_tsn |-> 2147483647,
           params |-> params] :
             type \in {1, 2},
             params \in {<<>>, <<<<7, <<1, 2, 3, 4, 5>>>>>>,
                         <<<<7, <<1>>>>, <<32776, <<>>>>>>}}
    \cup {[type |-> 3, flags |-> 0, cumulative_tsn |-> 16909060,
           advertised_rwnd |-> 131072, gaps |-> gaps,
           duplicates |-> duplicates] :
             gaps \in {<<>>, <<<<2, 3>>, <<5, 65535>>>>},
             duplicates \in {<<>>, <<7, 2147483647>>}}
    \cup {[type |-> type, flags |-> 0, params |-> params] :
             type \in {4, 5, 9},
             params \in {<<<<1, <<1, 2, 3>>>>, <<2, <<9>>>>>>,
                         <<<<3, <<0, 0, 0, 0>>>>>>}}
    \cup {[type |-> 6, flags |-> 1, params |-> <<>>],
          [type |-> 7, flags |-> 0, cumulative_tsn |-> 5],
          [type |-> 8, flags |-> 0, body |-> <<>>],
          [type |-> 10, flags |-> 0, body |-> <<>>],
          [type |-> 10, flags |-> 0, body |-> <<1, 2, 3>>],
          [type |-> 10, flags |-> 0, body |-> <<0, 0, 0, 0, 0, 0, 0, 0>>],
          [type |-> 11, flags |-> 0, body |-> <<>>],
          [type |-> 14, flags |-> 1, body |-> <<>>]}

Packets ==
    {Packet(header[1], header[2], header[3], chunks) :
        header \in {<<0, 65535, 0>>, <<5000, 5001, 2147483647>>},
        chunks \in SeqsUpTo(BuiltChunks, MaxCoded)}

\* Packet.parse(data) and, of the packet it returns, bytes(packet)
parsed(data, r) ==
    [op |-> "parse", wire |-> data, status |-> r.status,
     message |-> r.message, packet |-> r.packet,
     bytes |-> IF r.status = "ok" THEN packet_bytes(r.packet) ELSE <<>>,
     built |-> NoPacket]

Parse(data) == coded' = parsed(data, packet_parse(data))

\* bytes(packet) and, of the bytes, Packet.parse
encoded(packet, data, r) ==
    [op |-> "bytes", wire |-> data, status |-> r.status,
     message |-> r.message, packet |-> r.packet,
     bytes |-> <<>>, built |-> packet]

to_bytes(packet, data) == encoded(packet, data, packet_parse(data))

ToBytes(packet) == coded' = to_bytes(packet, packet_bytes(packet))

\* one byte string or one packet is drawn and coded
CodecNext ==
    \/ /\ coded = NoCode
       /\ \E data \in Wires :
            Parse(data) /\ UNCHANGED <<core, aborter, log, tasks, requested,
                                       inbound, popped, framed, compared,
                                       session>>
    \/ /\ coded = NoCode
       /\ \E packet \in Packets :
            ToBytes(packet) /\ UNCHANGED <<core, aborter, log, tasks, requested,
                                           inbound, popped, framed,
                                           compared, session>>

CodecSpec == Init /\ [][CodecNext]_vars

\* The comparisons of serial numbers on their own: of every two TSNs, and
\* of stream sequence numbers around 0, the half and the end of their range.
SeqNumbers ==
    {0, 1, 2, 32766, 32767, 32768, 32769, 32770, 65533, 65534, 65535}

CompareTsn(a, b) ==
    compared' = [op |-> "tsn_gt", a |-> a, b |-> b, gt |-> tsn_gt(a, b),
                 back |-> tsn_gt(b, a), next |-> tsn_gt(tsn_plus_one(a), a),
                 self |-> tsn_gt(a, a)]

CompareSeq(a, b) ==
    compared' = [op |-> "seq_gt", a |-> a, b |-> b, gt |-> seq_gt(a, b),
                 back |-> seq_gt(b, a), next |-> seq_gt(seq_plus_one(a), a),
                 self |-> seq_gt(a, a)]

\* two numbers are drawn and compared
SerialNext ==
    \/ /\ compared = NoCompare
       /\ \E a \in 0..(SCTP_TSN_MODULO - 1) : \E b \in 0..(SCTP_TSN_MODULO - 1) :
            CompareTsn(a, b) /\ UNCHANGED <<core, aborter, log, tasks, requested,
                                            inbound, popped, framed, coded,
                                            session>>
    \/ /\ compared = NoCompare
       /\ \E a \in SeqNumbers : \E b \in SeqNumbers :
            CompareSeq(a, b) /\ UNCHANGED <<core, aborter, log, tasks, requested,
                                            inbound, popped, framed, coded,
                                            session>>

SerialSpec == Init /\ [][SerialNext]_vars

\* the certificates the peer may present, by their SHA-256
Certificates == {[sha256 |-> <<171, 12>>], [sha256 |-> <<171, 13>>]}

\* what the application may set as remote_fingerprint: nothing, or the
\* fingerprint of a certificate in upper case, in lower case, in mixed case
\* or without its colon
Fingerprints ==
    {[set |-> FALSE, text |-> <<>>]}
        \cup {[set |-> TRUE, text |-> text] :
                text \in {<<"A", "B", ":", "0", "C">>, <<"a", "b", ":", "0", "c">>,
                          <<"a", "B", ":", "0", "c">>, <<"a", "b", ":", "0", "d">>,
                          <<"A", "B", "0", "C">>}}

HandshakeResults == {"done", "SSL_ERROR_WANT_READ", "SSL_ERROR_SSL"}

\* A DTLS session on its own: the application sets remote_fingerprint, calls
\* connect() and close() at any time, and the engine, the peer and the
\* transport answer in every way they can.
SessionNext ==
    \/ \E expected \in Fingerprints : \E result \in HandshakeResults :
       \E pending \in BOOLEAN : \E x509 \in Certificates : \E exported \in BOOLEAN :
            /\ Connect(expected, result, pending, x509, exported)
            /\ UNCHANGED <<core, aborter, log, tasks, requested, inbound, popped,
                           framed, coded, compared>>
    \/ \E x509 \in Certificates : \E exported \in BOOLEAN :
            /\ ConnectResume(x509, exported)
            /\ UNCHANGED <<core, aborter, log, tasks, requested, inbound, popped,
                           framed, coded, compared>>
    \/ /\ ConnectClosed
       /\ UNCHANGED <<core, aborter, log, tasks, requested, inbound, popped,
                      framed, coded, compared>>
    \/ \E shutdown \in BOOLEAN : \E result \in HandshakeResults :
       \E pending \in BOOLEAN : \E x509 \in Certificates : \E exported \in BOOLEAN :
            /\ ConnectRecv(shutdown, result, pending, x509, exported)
            /\ UNCHANGED <<core, aborter, log, tasks, requested, inbound, popped,
                           framed, coded, compared>>
    \/ /\ SessionRunBegin
       /\ UNCHANGED <<core, aborter, log, tasks, requested, inbound, popped,
                      framed, coded, compared>>
    \/ /\ SessionClosed
       /\ UNCHANGED <<core, aborter, log, tasks, requested, inbound, popped,
                      framed, coded, compared>>
    \/ \E kind \in {"data", "shutdown", "error"} :
            /\ SessionRecv(kind)
            /\ UNCHANGED <<core, aborter, log, tasks, requested, inbound, popped,
                           framed, coded, compared>>
    \/ /\ Close
       /\ UNCHANGED <<core, aborter, log, tasks, requested, inbound, popped,
                      framed, coded, compared>>
    \/ /\ CloseResume
       /\ UNCHANGED <<core, aborter, log, tasks, requested, inbound, popped,
                      framed, coded, compared>>

SessionSpec == Init /\ [][SessionNext]_vars

\* The session with datagrams of every kind: the first bytes at the edges of
\* the ranges of _recv_next
FirstBytes == {19, 64, 127, 128, 191, 192}

DatagramNext ==
    \/ SessionNext
    \/ \E first_byte \in FirstBytes : \E result \in HandshakeResults :
       \E pending \in BOOLEAN : \E x509 \in Certificates : \E exported \in BOOLEAN :
            /\ ConnectRecvDatagram(first_byte, result, pending, x509, exported)
            /\ UNCHANGED <<core, aborter, tasks, requested, inbound, popped,
                           framed, coded, compared>>
    \/ \E first_byte \in FirstBytes : \E valid \in BOOLEAN :
            /\ SessionRecvDatagram(first_byte, valid)
            /\ UNCHANGED <<core, aborter, tasks, requested, inbound, popped,
                           framed, coded, compared>>

DatagramSpec == Init /\ [][DatagramNext]_vars

-----------------------------------------------------------------------------
(* Properties of the handshake *)

\* the datagrams p can receive next
Incoming(p) ==
    Injectable(p) \cup (IF net[p] = <<>> THEN {} ELSE {Head(net[p])})

\* this step is __run(p) receiving d and running to its next suspension
Arrives(p, d) ==
    \/ RecvInjected(p, d)
    \/ net[p] # <<>> /\ d = Head(net[p]) /\ RecvData(p)

\* d is a packet of the one chunk c that passes p's tag check
Carries(p, d, c) ==
    /\ d.length >= 12 /\ d.checksum_ok
    /\ d.chunks = <<c>>
    /\ d.verification_tag = IF c.type = "INIT" THEN 0 ELSE local_verification_tag[p]

\* the one packet this step puts on the wire goes to q and holds chunk c
SendsTo(q, c) ==
    /\ net'[q] # <<>>
    /\ net'[q][Len(net'[q])].chunks = <<c>>
    /\ \E old \in {net[q], IF net[q] = <<>> THEN <<>> ELSE Tail(net[q])} :
          net'[q] = Append(old, net'[q][Len(net'[q])])

\* this step puts nothing on the wire
SendsNothing ==
    \A q \in Peers : Len(net'[q]) <= Len(net[q])

Handshake == <<"INIT", "INIT_ACK", "COOKIE_ECHO", "COOKIE_ACK">>

\* C1: over a lossless in-order channel, with a client and a server started
\* and the handshake running within the cookie lifetime, both associations
\* eventually are ESTABLISHED, after exactly the messages INIT, INIT_ACK,
\* COOKIE_ECHO, COOKIE_ACK in that order.
C1_HandshakeCompletes ==
    <>(BothEstablished /\ log = Handshake)

C1_Established ==
    /\ BothEstablished
    /\ log = Handshake
    /\ \A p \in Peers : run[p].pc = "recv" /\ net[p] = <<>>

\* a cookie the server accepts at time t
ValidCookie(p, cookie, t) ==
    /\ cookie.len = COOKIE_LENGTH
    /\ cookie.mac = hmac_sha1(hmac_key[p], cookie.stamp)
    /\ t - COOKIE_LIFETIME <= cookie.stamp
    /\ cookie.stamp <= t

\* C2: a server association becomes ESTABLISHED only in handling a
\* COOKIE_ECHO whose cookie is 24 bytes long, carries the MAC of its first
\* four bytes under the server's key, and has a timestamp t with
\* now - 60 <= t <= now; the COOKIE_ACK is sent before the state changes;
\* handling an INIT never changes the server's state.
C2_ServerEstablishes ==
    [][\A p \in Peers : is_server[p] =>
        /\ (assoc'[p].state = "ESTABLISHED" /\ assoc[p].state # "ESTABLISHED") =>
              /\ run[p].pc = "send" /\ run[p].cont = "ESTABLISHED"
              /\ run[p].chunk.type = "COOKIE_ECHO"
              /\ ValidCookie(p, run[p].chunk.body, run[p].now)
        /\ (run'[p].cont = "ESTABLISHED" /\ run[p].cont # "ESTABLISHED") =>
              /\ SendsTo(Other(p), Chunk("COOKIE_ACK"))
              /\ assoc'[p].state = assoc[p].state
        /\ \A d \in Incoming(p) :
              (Arrives(p, d) /\ d.length >= 12 /\ d.checksum_ok
                 /\ \A i \in 1..Len(d.chunks) : d.chunks[i].type = "INIT")
              => assoc'[p].state = assoc[p].state
        /\ (run[p].pc = "send" /\ run[p].chunk.type = "INIT" /\ run'[p] # run[p])
              => assoc'[p].state = assoc[p].state
    ]_vars

C2_AckOnTheWire ==
    /\ assoc["server"].state = "ESTABLISHED"
    /\ assoc["client"].state = "COOKIE_ECHOED"
    /\ net["client"] = <<Datagram(local_verification_tag["client"],
                                  <<Chunk("COOKIE_ACK")>>)>>

\* C3: a client association goes to COOKIE_ECHOED only from COOKIE_WAIT, in
\* handling an INIT_ACK, and to ESTABLISHED only from COOKIE_ECHOED, in
\* handling a COOKIE_ACK.
C3_ClientTransitions ==
    [][\A p \in Peers : ~is_server[p] =>
        /\ (assoc'[p].state = "COOKIE_ECHOED" /\ assoc[p].state # "COOKIE_ECHOED") =>
              assoc[p].state = "COOKIE_WAIT"
        /\ (assoc'[p].state = "ESTABLISHED" /\ assoc[p].state # "ESTABLISHED") =>
              assoc[p].state = "COOKIE_ECHOED"
    ]_vars

\* C4: a COOKIE_ECHO whose cookie has a valid MAC and a timestamp t with
\* t < now - 60 or t > now makes the server send an ERROR chunk with the one
\* parameter (3, eight zero bytes), send no COOKIE_ACK and stay as it is; a
\* client in COOKIE_ECHOED that receives an ERROR goes to CLOSED; timestamps
\* now - 60 and now are accepted.
C4_StaleCookie ==
    [][\A p \in Peers : \A d \in Incoming(p) :
        LET c == d.chunks[1]
            b == c.body
            one == /\ d.length >= 12 /\ d.checksum_ok
                   /\ d.verification_tag = local_verification_tag[p]
                   /\ Len(d.chunks) = 1
            good_mac == b.len = 24 /\ b.mac = hmac_sha1(hmac_key[p], b.stamp)
        IN
        /\ ( /\ is_server[p] /\ one /\ c.type = "COOKIE_ECHO" /\ good_mac
             /\ (b.stamp < now - 60 \/ b.stamp > now)
             /\ Arrives(p, d) )
           => /\ SendsTo(Other(p), [Chunk("ERROR") EXCEPT
                                      !.params = << <<3, Zeros(8)>> >>])
              /\ assoc' = assoc
              /\ run'[p].pc = "send" /\ run'[p].cont = ""
        /\ ( /\ is_server[p] /\ one /\ c.type = "COOKIE_ECHO" /\ good_mac
             /\ b.stamp \in {now - 60, now}
             /\ Arrives(p, d) )
           => /\ SendsTo(Other(p), Chunk("COOKIE_ACK"))
              /\ run'[p].pc = "send" /\ run'[p].cont = "ESTABLISHED"
        /\ ( /\ ~is_server[p] /\ one /\ c.type = "ERROR"
             /\ assoc[p].state = "COOKIE_ECHOED"
             /\ Arrives(p, d) )
           => assoc'[p].state = "CLOSED" /\ assoc'[p].closed
    ]_vars

\* nothing was injected, the server sent the cookie at 0 and it is 61 now:
\* the handshake has ended with both CLOSED
C4_BothClosed ==
    /\ injected = 0
    /\ now = COOKIE_LIFETIME + 1
    /\ assoc["client"].state = "CLOSED" /\ assoc["client"].closed
    /\ assoc["client"].remote_verification_tag = local_verification_tag["server"]
    /\ assoc["server"].state = "CLOSED"
    /\ last["server"] = "COOKIE_ECHO"
    /\ last["client"] = "ERROR"

\* C5: a COOKIE_ECHO whose cookie is not 24 bytes long or carries another MAC
\* is dropped: the server sends nothing and no state changes, so the server
\* stays CLOSED and the client stays in COOKIE_ECHOED.
C5_BadCookie ==
    [][\A p \in Peers : \A d \in Incoming(p) :
        ( /\ is_server[p]
          /\ d.length >= 12 /\ d.checksum_ok
          /\ d.verification_tag = local_verification_tag[p]
          /\ Len(d.chunks) = 1 /\ d.chunks[1].type = "COOKIE_ECHO"
          /\ LET b == d.chunks[1].body
             IN  b.len # 24 \/ b.mac # hmac_sha1(hmac_key[p], b.stamp)
          /\ Arrives(p, d) )
        => /\ SendsNothing
           /\ assoc' = assoc
           /\ run'[p] = AtRecv
    ]_vars

\* the client has echoed a cookie the server did not make, the server has
\* received it and is as it was
C5_EchoDropped ==
    /\ assoc["client"].state = "COOKIE_ECHOED"
    /\ assoc["client"].remote_verification_tag = local_verification_tag["server"]
    /\ assoc["server"].state = "CLOSED"
    /\ last["server"] = "COOKIE_ECHO"
    /\ run["server"] = AtRecv
    /\ run["client"].pc = "recv"
    /\ net["client"] = <<>>

-----------------------------------------------------------------------------
(* Properties of the receive loop *)

\* d decodes
Decodes(d) == d.length >= 12 /\ d.checksum_ok

HasInit(d) == \E i \in 1..Len(d.chunks) : d.chunks[i].type = "INIT"

\* C6: in every state, a packet that holds an INIT chunk and has a
\* verification tag other than 0, or holds no INIT chunk and has a
\* verification tag other than the local tag, is dropped: none of its chunks
\* is processed, no field of the association changes, nothing is sent.
C6_BadTagDropped ==
    [][\A p \in Peers : \A d \in Incoming(p) :
        ( /\ Decodes(d)
          /\ \/ HasInit(d) /\ d.verification_tag # 0
             \/ ~HasInit(d) /\ d.verification_tag # local_verification_tag[p]
          /\ Arrives(p, d) )
        => /\ SendsNothing
           /\ assoc' = assoc
           /\ run'[p].cont = "" /\ run'[p].rest = <<>>
    ]_vars

\* an ESTABLISHED association has dropped a packet for its tag and waits
\* for the next
C6_DroppedWhenEstablished ==
    \E p \in Peers :
        /\ last[p] = "bad tag"
        /\ assoc[p].state = "ESTABLISHED"
        /\ run[p] = AtRecv

\* C7: a packet that holds an INIT chunk together with another chunk is
\* dropped: none of its chunks is processed, nothing is sent, the association
\* is unchanged, and the receive loop goes on to the next packet.
C7_InitBundleDropped ==
    [][\A p \in Peers : \A d \in Incoming(p) :
        ( /\ Decodes(d)
          /\ HasInit(d) /\ Len(d.chunks) > 1
          /\ Arrives(p, d) )
        => /\ SendsNothing
           /\ assoc' = assoc
           /\ run'[p] = AtRecv
    ]_vars

\* C8: a datagram of fewer than 12 bytes, or one whose checksum does not
\* match, is discarded: no field of the association changes, nothing is sent
\* and the receive loop waits for the next datagram; a started server that
\* receives nothing but such datagrams stays CLOSED, and stop() on it returns.
C8_GarbageDiscarded ==
    /\ [][\A p \in Peers : \A d \in Incoming(p) :
            ((d.length < 12 \/ ~d.checksum_ok) /\ Arrives(p, d))
            => /\ SendsNothing
               /\ assoc' = assoc
               /\ run'[p] = AtRecv
       ]_vars
    /\ [](run["client"].pc = "idle" => assoc["server"].state = "CLOSED")
    /\ [][\A p \in Peers :
            (run["client"].pc = "idle" /\ is_server[p] /\ Stop(p))
            => stopper'[p].pc = "returned" /\ assoc'[p].closed
       ]_vars

\* the server received a datagram that does not decode, then stop() was
\* called on it and returned, and its receive loop has ended
C8_StoppedAfterGarbage ==
    /\ run["client"].pc = "idle"
    /\ last["server"] \in {"truncated", "invalid checksum"}
    /\ assoc["server"].state = "CLOSED"
    /\ stopper["server"].pc = "returned"
    /\ run["server"].pc = "done"

-----------------------------------------------------------------------------
(* Properties of stop() *)

AllClosed == \A p \in Peers : assoc[p].state = "CLOSED"

\* C9: with both peers ESTABLISHED over a lossless in-order channel, stop()
\* on one peer or on both returns and leaves both peers CLOSED.  Stated of
\* the runs that have come to rest: when every call of stop() has returned
\* and both receive loops have ended, both peers are CLOSED.
C9_ShutdownEndsClosed ==
    ( /\ \E p \in Peers : stopper[p].pc = "returned"
      /\ \A p \in Peers : stopper[p].pc \in {"none", "returned"}
      /\ \A p \in Peers : run[p].pc = "done" )
    => AllClosed

\* C10: whenever a call of stop() has returned, the state of the
\* association is CLOSED, whatever the receive loop was doing when stop()
\* was called and whatever it has done since.
C10_ClosedAfterStop ==
    \A p \in Peers : stopper[p].pc = "returned" => assoc[p].state = "CLOSED"

-----------------------------------------------------------------------------
(* Properties of _abort() *)

StopCalled == \E p \in Peers : stopper[p].calls > 0

\* the first _abort() of the run was called on an ESTABLISHED association
\* that has an ESTABLISHED peer, and its ABORT has not been received yet
AbortOnTheWire ==
    /\ log = <<"ESTABLISHED">>
    /\ BothEstablished

C11_AbortedInShutdown ==
    \E p \in Peers :
        /\ last[p] = "ABORT"
        /\ stopper[p].pc = "waiting"
        /\ assoc[p].state = "CLOSED"

-----------------------------------------------------------------------------
(* Properties of the reassembly *)

RECURSIVE Concat(_, _, _)
\* the user data of the chunks i..j of a buffer, joined in this order
Concat(b, i, j) ==
    IF i > j THEN <<>> ELSE b[i].user_data \o Concat(b, i + 1, j)

\* the chunks i..j of a buffer are the fragments of one message with the
\* stream sequence number seq
IsRun(b, i, j, seq) ==
    /\ i <= j
    /\ flag_set(b[i].flags, SCTP_DATA_FIRST_FRAG)
    /\ flag_set(b[j].flags, SCTP_DATA_LAST_FRAG)
    /\ \A k \in i..j : b[k].stream_seq = seq
    /\ \A k \in i..(j - 1) : b[k + 1].tsn = tsn_plus_one(b[k].tsn)

\* TSN contiguity breaks before the first LAST_FRAG of a buffer
ContiguityBreaks(b) ==
    \E k \in 1..(Len(b) - 1) :
        /\ \A j \in 1..k : ~flag_set(b[j].flags, SCTP_DATA_LAST_FRAG)
        /\ b[k + 1].tsn # tsn_plus_one(b[k].tsn)

\* C14: every message pop_messages() yields is the user data, joined in TSN
\* order, of a run of chunks of the buffer that starts with FIRST_FRAG, ends
\* with LAST_FRAG, has TSNs going up by one (mod the TSN modulus) and one
\* stream sequence number, the expected one (the m-th message of a call has
\* the expected number of the call plus m - 1); and when the first chunk has
\* another stream sequence number or lacks FIRST_FRAG, or contiguity breaks
\* before LAST_FRAG, the call yields nothing and leaves the buffer as it was.
C14_NoPartialDelivery ==
    popped.called =>
        LET b == popped.before.reassembly
            n == popped.before.sequence_number
            ms == popped.messages
        IN  /\ \A m \in 1..Len(ms) :
                  \E i, j \in 1..Len(b) :
                      /\ IsRun(b, i, j, (n + m - 1) % SCTP_SEQ_MODULO)
                      /\ ms[m].user_data = Concat(b, i, j)
            /\ (b # <<>> /\ (\/ b[1].stream_seq # n
                              \/ ~flag_set(b[1].flags, SCTP_DATA_FIRST_FRAG)
                              \/ ContiguityBreaks(b)))
                  => ms = <<>> /\ inbound = popped.before

\* a message of two fragments, one on each side of the TSN wrap, was yielded
\* and the chunk behind them stays buffered
C14_TwoFragmentsYielded ==
    /\ popped.called
    /\ Len(popped.before.reassembly) = 3
    /\ Len(popped.messages) = 1
    /\ popped.messages[1].user_data = <<SCTP_TSN_MODULO - 1, 0>>
    /\ Len(inbound.reassembly) = 1

\* a call found the fragments of a message apart by one TSN and yielded nothing
C14_GapBlocks ==
    /\ popped.called
    /\ Len(popped.before.reassembly) = 2
    /\ popped.before.reassembly[1].flags = SCTP_DATA_FIRST_FRAG
    /\ popped.before.reassembly[2].flags = SCTP_DATA_LAST_FRAG
    /\ popped.before.reassembly[1].stream_seq = popped.before.sequence_number
    /\ popped.before.reassembly[2].stream_seq = popped.before.sequence_number
    /\ ContiguityBreaks(popped.before.reassembly)
    /\ popped.messages = <<>>

-----------------------------------------------------------------------------
(* Data channels *)

\* the datachannel events p has emitted
DataChannelEvents(p) == SelectSeq(upper[p], LAMBDA e : e.event = "datachannel")

\* channel c of p has its id and is open, and the other peer has emitted one
\* datachannel event, for an open channel of this id and label
ChannelEstablished(p, c) ==
    LET channel == assoc[p].channels[c]
        events == DataChannelEvents(Other(p))
    IN  /\ channel.id # None
        /\ channel.readyState = "open"
        /\ Len(SelectSeq(events, LAMBDA e : e.channel.id = channel.id)) = 1
        /\ \E i \in 1..Len(events) :
            events[i].channel = [channel EXCEPT !.readyState = "open"]

\* C16: when a peer opens a channel on an established association, the
\* channel gets its id, the other peer emits exactly one datachannel event
\* for an open channel of this id and label, the opener emits none, and the
\* opener's channel is open once the ACK has arrived: all of this holds once
\* nothing is left to do.
C16_ChannelEstablished ==
    \A p \in Peers :
        local_channels(assoc[p]) # {} /\ Quiet =>
            /\ \A c \in local_channels(assoc[p]) : ChannelEstablished(p, c)
            /\ DataChannelEvents(p) = <<>>

\* the first id p allocates
first_id(p) == IF is_server[p] THEN 0 ELSE 1

\* C15: the first id a server allocates is 0 and the first a client
\* allocates is 1; every later one is the one before plus 2; the ids a peer
\* allocates are distinct and of its parity, and none is an id the other peer
\* allocates.
C15_StreamIds ==
    \A p \in Peers :
        LET ids == assoc[p].allocated
        IN  /\ ids # <<>> => ids[1] = first_id(p)
            /\ \A i \in 2..Len(ids) : ids[i] = ids[i - 1] + 2
            /\ \A i, j \in 1..Len(ids) : i # j => ids[i] # ids[j]
            /\ \A i \in 1..Len(ids) : ids[i] % 2 = first_id(p) % 2
            /\ \A i \in 1..Len(ids) : \A j \in 1..Len(assoc[Other(p)].allocated) :
                    ids[i] # assoc[Other(p)].allocated[j]
            /\ \A c \in 1..Len(assoc[p].channels) :
                    assoc[p].channels[c].id # None =>
                        \A d \in 1..Len(assoc[p].channels) :
                            assoc[p].channels[d].id = assoc[p].channels[c].id => d = c

\* both peers have allocated MaxOpens ids
C15_BothAllocated ==
    \A p \in Peers : Len(assoc[p].allocated) = MaxOpens /\ MaxOpens >= 2

-----------------------------------------------------------------------------
(* Messages *)

\* the messages handed to the layer above p, as _receive got them
ReceivedBy(p) ==
    LET events == SelectSeq(upper[p], LAMBDA e : e.event = "receive")
    IN  [i \in 1..Len(events) |->
            [stream_id |-> events[i].stream_id, protocol |-> events[i].protocol,
             user_data |-> events[i].user_data]]

\* the messages of a sequence that are on one stream
OnStream(msgs, stream_id) == SelectSeq(msgs, LAMBDA m : m.stream_id = stream_id)

\* how many times m is in msgs
Count(msgs, m) == Cardinality({i \in 1..Len(msgs) : msgs[i] = m})

\* C12: every message sent on an established association over a lossless
\* in-order channel is delivered to the layer above the peer, and every
\* delivered message has the bytes, the stream id and the protocol of a
\* message that was sent: what was delivered is always part of what was
\* sent, and all of it once nothing is left to do.
C12_MessageIntegrity ==
    \A p \in Peers :
        LET sent == assoc[p].sent
            got == ReceivedBy(Other(p))
        IN  /\ \A i \in 1..Len(got) : Count(got, got[i]) <= Count(sent, got[i])
            /\ Quiet => \A i \in 1..Len(sent) :
                            Count(got, sent[i]) = Count(sent, sent[i])

\* C13: on each stream the messages are delivered in the order in which
\* they were sent, the k-th delivered one being the k-th sent one and the one
\* with stream_seq k - 1 (mod 2^16).
C13_StreamOrder ==
    \A p \in Peers : \A stream_id \in Streams :
        LET sent == OnStream(assoc[p].sent, stream_id)
            got == OnStream(ReceivedBy(Other(p)), stream_id)
        IN  /\ Len(got) <= Len(sent)
            /\ \A k \in 1..Len(got) : got[k] = sent[k]
            /\ Get(assoc[Other(p)].inbound_streams, stream_id, InboundStream)
                    .sequence_number = Len(got) % SCTP_SEQ_MODULO

-----------------------------------------------------------------------------
(* DCEP OPEN from the peer *)

\* what q hands to the layer above in this step
HandedUp(q) == SubSeq(upper'[q], Len(upper[q]) + 1, Len(upper'[q]))

\* _data_channel_receive of q gets a DCEP OPEN in this step, and no other
\* message
OpenReceived(q) ==
    LET msgs == SelectSeq(HandedUp(q), LAMBDA e : e.event = "receive")
    IN  /\ Len(msgs) = 1
        /\ HandedUp(q)[1] = msgs[1]
        /\ msgs[1].protocol = WEBRTC_DCEP
        /\ Len(msgs[1].user_data) >= 12
        /\ msgs[1].user_data[1] = DATA_CHANNEL_OPEN

\* the DCEP ACKs a has put into its queue so far, on the stream
AcksQueued(a, stream_id) ==
    {<<l, i>> \in (1..Len(a.lists)) \X (1..4) :
        /\ i <= Len(a.lists[l])
        /\ a.lists[l][i].protocol = WEBRTC_DCEP
        /\ a.lists[l][i].user_data = <<DATA_CHANNEL_ACK>>
        /\ a.channels[a.lists[l][i].channel].id = stream_id}

\* C18: a received DCEP OPEN registers a new channel, puts one DCEP ACK into
\* the queue and emits one datachannel event (at once, or when the flush it
\* awaits has ended) if its stream id is not registered and of the parity
\* opposite to the local one; otherwise it changes no registration, queues
\* no ACK and emits no event.
C18_OpenValidation ==
    [][\A q \in Peers : OpenReceived(q) =>
        LET stream_id == HandedUp(q)[1].stream_id
            a == assoc[q]
            b == assoc'[q]
            events == SelectSeq(HandedUp(q), LAMBDA e : e.event = "datachannel")
        IN  IF /\ stream_id \notin DOMAIN a.data_channels
               /\ stream_id % 2 # a.data_channel_id % 2
            THEN /\ stream_id \in DOMAIN b.data_channels
                 /\ Len(b.channels) = Len(a.channels) + 1
                 /\ b.data_channels[stream_id] = Len(b.channels)
                 /\ b.channels[Len(b.channels)].id = stream_id
                 /\ Cardinality(AcksQueued(b, stream_id))
                        = Cardinality(AcksQueued(a, stream_id)) + 1
                 /\ \/ Len(events) = 1 /\ events[1].channel.id = stream_id
                    \/ /\ events = <<>>
                       /\ run'[q].pc = "send" /\ run'[q].cont = "flush"
                       /\ run'[q].channel = Len(b.channels)
            ELSE /\ b.data_channels = a.data_channels
                 /\ b.channels = a.channels
                 /\ b.lists = a.lists
                 /\ events = <<>>
                 /\ run'[q].cont # "flush"
    ]_vars

-----------------------------------------------------------------------------
(* Properties of the framing of values *)

-----------------------------------------------------------------------------
(* Properties of the wire format *)

\* C19: the bytes of the packet that Packet.parse returns for a byte
\* string are that byte string.
C19_WireRoundTrip ==
    coded.op = "parse" /\ coded.status = "ok" => coded.bytes = coded.wire

\* C20: the bytes of a packet built of chunks of the known classes parse
\* without an exception, checksum included, to a packet with the same
\* ports, verification tag and chunks, field for field.
C20_EncoderRoundTrip ==
    coded.op = "bytes" => coded.status = "ok" /\ coded.packet = coded.built

\* a packet of two chunks went through, the first with two parameters
\* and padding between them
C20_PaddedParamsCoded ==
    /\ coded.op = "bytes"
    /\ Len(coded.built.chunks) = 2
    /\ coded.built.chunks[1].type = 4
    /\ coded.built.chunks[1].params = <<<<1, <<1, 2, 3>>>>, <<2, <<9>>>>>>
    /\ Len(coded.wire) > 12 + 20
    /\ coded.packet.chunks # <<>>

\* C21: Packet.parse of less than 12 bytes raises the ValueError of a short
\* packet, and Packet.parse of 12 bytes or more whose bytes 8 to 11 are not
\* the byte-swapped CRC-32C of the bytes with that field zeroed raises the
\* ValueError of an invalid checksum; neither returns a packet.
C21_DecoderRejects ==
    coded.op = "parse" =>
        /\ Len(coded.wire) < 12 =>
                /\ coded.status = "ValueError"
                /\ coded.message = "SCTP packet length is less than 12 bytes"
                /\ coded.packet = NoPacket /\ coded.bytes = <<>>
        /\ /\ Len(coded.wire) >= 12
           /\ Slice(coded.wire, 8, 12)
                # pack_L_swapl(crc32c(check_data(coded.wire)))
           => /\ coded.status = "ValueError"
              /\ coded.message = "SCTP packet has invalid checksum"
              /\ coded.packet = NoPacket /\ coded.bytes = <<>>

\* a packet whose checksum is stored in the other byte order was refused
C21_UnswappedRefused ==
    /\ coded.op = "parse"
    /\ Len(coded.wire) = 16
    /\ unswapped(coded.wire) = with_checksum(check_data(coded.wire))
    /\ coded.wire # with_checksum(check_data(coded.wire))
    /\ coded.message = "SCTP packet has invalid checksum"

-----------------------------------------------------------------------------
(* Properties of the serial numbers *)

\* C30: tsn_gt(a, b) holds exactly when (a - b) modulo the range of the TSNs
\* is above 0 and below half the range; so the successor of every a,
\* the last one included, is greater than a, no a is greater than itself,
\* and of a and b at most one is greater than the other.  The same holds of
\* seq_gt and the range of the stream sequence numbers.
C30_SerialComparison ==
    /\ compared.op = "tsn_gt" =>
        /\ compared.gt <=>
              /\ 0 < (compared.a - compared.b) % SCTP_TSN_MODULO
              /\ (compared.a - compared.b) % SCTP_TSN_MODULO
                    < SCTP_TSN_MODULO \div 2
        /\ compared.next /\ ~compared.self
        /\ ~(compared.gt /\ compared.back)
    /\ compared.op = "seq_gt" =>
        /\ compared.gt <=>
              /\ 0 < (compared.a - compared.b) % 65536
              /\ (compared.a - compared.b) % 65536 < 32768
        /\ compared.next /\ ~compared.self
        /\ ~(compared.gt /\ compared.back)

\* the first TSN was found greater than the last one
C30_WrappedGreater ==
    /\ compared.op = "tsn_gt"
    /\ compared.a = 0 /\ compared.b = SCTP_TSN_MODULO - 1
    /\ compared.gt /\ ~compared.back


-----------------------------------------------------------------------------
(* Properties of the DATA branch and of the SACK *)

\* tsn is at or behind last_tsn on the circle of TSNs
AtOrBehind(tsn, last_tsn) ==
    (last_tsn - tsn) % SCTP_TSN_MODULO < SCTP_TSN_MODULO \div 2

\* the TSN that is received last once the chunks were received after
\* last_tsn, when only the chunk with the next TSN moves it
RECURSIVE MovedBy(_, _)
MovedBy(last_tsn, chunks) ==
    IF chunks = <<>> THEN last_tsn
    ELSE MovedBy(IF Head(chunks).tsn = (last_tsn + 1) % SCTP_TSN_MODULO
                 THEN Head(chunks).tsn ELSE last_tsn,
                 Tail(chunks))

\* the TSNs of the chunks that are at or behind the TSN received last when
\* they are received, in order
RECURSIVE SeenBefore(_, _)
SeenBefore(last_tsn, chunks) ==
    IF chunks = <<>> THEN <<>>
    ELSE IF AtOrBehind(Head(chunks).tsn, last_tsn)
    THEN <<Head(chunks).tsn>> \o SeenBefore(last_tsn, Tail(chunks))
    ELSE SeenBefore(MovedBy(last_tsn, <<Head(chunks)>>), Tail(chunks))

\* what a step of p shows when it has received the DATA chunks
DataHandled(p, chunks) ==
    LET a == assoc[p]
        b == assoc'[p]
    IN  /\ b.last_received_tsn = MovedBy(a.last_received_tsn, chunks)
        /\ b.sack_duplicates
              = a.sack_duplicates \o SeenBefore(a.last_received_tsn, chunks)
        /\ b.sack_needed
        /\ b.last_received_tsn = a.last_received_tsn =>
              /\ b.inbound_streams = a.inbound_streams
              /\ upper'[p] = upper[p]

\* C26: of the DATA chunks an established association receives, only the
\* one whose TSN is the TSN received last plus one (modulo 2^TsnBits) moves
\* last_received_tsn, and by one; one whose TSN is at or behind it is
\* appended to the SACK duplicates; one further ahead is not; neither of the
\* two is buffered or delivered, and sack-needed is set after each.  No
\* step that receives no DATA chunk moves last_received_tsn, and a packet is
\* received to its last chunk unless a message it completes raises.
C26_DataAcceptance ==
    [][\A p \in Peers :
        /\ BothEstablished /\ injected' = injected =>
              assoc'[p].last_received_tsn = assoc[p].last_received_tsn
        /\ injected' # injected =>
              \A d \in ForgedData(p) : RecvForged(p, d) =>
                  \E n \in 1..Len(d.chunks) :
                      /\ n = Len(d.chunks) \/ run'[p].pc = "crashed"
                      /\ DataHandled(p, SubSeq(d.chunks, 1, n))
    ]_vars

\* the server has received the chunk after its first TSN, across the wrap,
\* and then the same chunk again
C26_WrappedThenDuplicate ==
    /\ injected > 0
    /\ assoc["server"].last_received_tsn = initial_local_tsn["client"]
    /\ initial_local_tsn["client"] = 0
    /\ assoc["server"].sack_duplicates = <<0>>
    /\ assoc["server"].sack_needed

\* the step has queued one packet for the peer of p: the SACK of p for the
\* DATA chunks it has received in this step
SackSent(p, chunks) ==
    net' = [net EXCEPT ![Other(p)] =
              Append(@, Datagram(assoc[p].remote_verification_tag,
                                 <<[Chunk("SACK") EXCEPT
                                      !.cumulative_tsn = assoc'[p].last_received_tsn,
                                      !.duplicates =
                                          SeenBefore(assoc[p].last_received_tsn,
                                                     chunks)]>>))]

\* the step has queued a packet with a SACK for q
SackQueued(q) ==
    /\ Len(net'[q]) > Len(net[q])
    /\ \E i \in 1..Len(net'[q][Len(net'[q])].chunks) :
            net'[q][Len(net'[q])].chunks[i].type = "SACK"

\* C27: the step of __run that receives a packet with DATA chunks sends one
\* SACK, after the last chunk, with last_received_tsn as it is then for
\* cumulative_tsn and the TSNs of the packet that were at or behind it for
\* duplicates; no other step sends a SACK; and whenever __run waits for the
\* next datagram sack-needed is false and the duplicates are empty.
C27_SackEmission ==
    [][\A p \in Peers :
        /\ run'[p].pc = "recv" =>
              ~assoc'[p].sack_needed /\ assoc'[p].sack_duplicates = <<>>
        /\ injected' = injected => ~SackQueued(p)
        /\ injected' # injected =>
              \A d \in ForgedData(p) : RecvForged(p, d) => SackSent(p, d.chunks)
    ]_vars

-----------------------------------------------------------------------------
(* Properties of _send *)

\* the packets p has handed to the transport in its _send calls, in order
PacketsOf(p) ==
    LET mine == SelectSeq(log, LAMBDA e : e.peer = p)
    IN  [i \in 1..Len(mine) |-> mine[i].packet]

\* the number of pieces of at most USERDATA_MAX_LENGTH bytes that L > 0
\* bytes are cut into
Pieces(L) ==
    CHOOSE n \in 1..L :
        (n - 1) * USERDATA_MAX_LENGTH < L /\ L <= n * USERDATA_MAX_LENGTH

\* the DATA chunks of the message with index m of a sequence of calls, cut
\* as the claim says and numbered from tsn on, without their stream_seq
FragmentsOf(msg, m, tsn) ==
    [i \in 1..Pieces(Len(msg.user_data)) |->
        [message |-> m,
         flags |-> (IF i = 1 THEN SCTP_DATA_FIRST_FRAG ELSE 0)
                   + (IF i = Pieces(Len(msg.user_data))
                      THEN SCTP_DATA_LAST_FRAG ELSE 0),
         tsn |-> (tsn + i - 1) % SCTP_TSN_MODULO,
         stream_id |-> msg.stream_id,
         protocol |-> msg.protocol,
         user_data |-> SubSeq(msg.user_data, (i - 1) * USERDATA_MAX_LENGTH + 1,
                              IF i * USERDATA_MAX_LENGTH < Len(msg.user_data)
                              THEN i * USERDATA_MAX_LENGTH
                              ELSE Len(msg.user_data))]]

\* the chunks of the calls from the m-th on, when each call takes its TSNs
\* from where the one before has left local_tsn
RECURSIVE ChunksFrom(_, _, _)
ChunksFrom(msgs, m, tsn) ==
    IF m > Len(msgs) THEN <<>>
    ELSE FragmentsOf(msgs[m], m, tsn)
            \o ChunksFrom(msgs, m + 1, tsn + Pieces(Len(msgs[m].user_data)))

\* the packets are the first ones of those that carry the chunks: one
\* chunk each, under the tag, with the same stream_seq for one message
CarriedBy(packets, chunks, tag) ==
    /\ Len(packets) <= Len(chunks)
    /\ \A i \in 1..Len(packets) :
            /\ packets[i].verification_tag = tag
            /\ Len(packets[i].chunks) = 1
            /\ packets[i].chunks[1].type = "DATA"
            /\ packets[i].chunks[1].flags = chunks[i].flags
            /\ packets[i].chunks[1].tsn = chunks[i].tsn
            /\ packets[i].chunks[1].stream_id = chunks[i].stream_id
            /\ packets[i].chunks[1].protocol = chunks[i].protocol
            /\ packets[i].chunks[1].user_data = chunks[i].user_data
            /\ Len(packets[i].chunks[1].user_data) <= USERDATA_MAX_LENGTH
            /\ \A j \in 1..Len(packets) :
                    chunks[i].message = chunks[j].message =>
                        packets[i].chunks[1].stream_seq
                            = packets[j].chunks[1].stream_seq

\* C28: the packets of the _send calls of a peer are, call after call, the
\* payload cut into ceil(L / USERDATA_MAX_LENGTH) DATA chunks of at most
\* USERDATA_MAX_LENGTH bytes that join to the payload, with the TSNs from
\* local_tsn of the time of the call on, FIRST_FRAG on the first and
\* LAST_FRAG on the last only, the stream id and the protocol of the call
\* and one stream_seq, under the remote tag; local_tsn has advanced by the
\* number of chunks, and all chunks are out when no call is suspended.
C28_Fragmentation ==
    \A p \in Peers :
        /\ CarriedBy(PacketsOf(p),
                     ChunksFrom(assoc[p].sent, 1, initial_local_tsn[p]),
                     assoc[p].remote_verification_tag)
        /\ assoc[p].local_tsn
              = (initial_local_tsn[p] + Len(PacketsOf(p))) % SCTP_TSN_MODULO
        /\ (\A k \in 1..Len(tasks[p]) : tasks[p][k].pc # "alone") =>
              Len(PacketsOf(p))
                  = Len(ChunksFrom(assoc[p].sent, 1, initial_local_tsn[p]))

\* the first chunks of the messages p has emitted on the stream, in order
FirstChunks(p, stream_id) ==
    LET firsts == SelectSeq(PacketsOf(p),
                            LAMBDA d : /\ d.chunks[1].stream_id = stream_id
                                       /\ flag_set(d.chunks[1].flags,
                                                    SCTP_DATA_FIRST_FRAG))
    IN  [i \in 1..Len(firsts) |-> firsts[i].chunks[1]]

\* C29: the messages a peer emits on one stream carry the stream_seq 0, 1,
\* 2, ... (modulo 2^16) in the order of their emission, so that no two of
\* them share one, also when the _send calls overlap.
C29_OutboundStreamSeq ==
    \A p \in Peers : \A stream_id \in Streams :
        \A k \in 1..Len(FirstChunks(p, stream_id)) :
            FirstChunks(p, stream_id)[k].stream_seq = (k - 1) % SCTP_SEQ_MODULO

-----------------------------------------------------------------------------
(* Properties of the close of the DTLS session under an association *)

\* the receive of p's __run raises ConnectionError in this step
ConnectionLost(p) ==
    /\ run[p].pc = "recv" /\ dtls_closed[p]
    /\ run'[p].pc = "done"
    /\ ~assoc[p].closed

\* C25: when the closed signal of the DTLS session fires while a started
\* association over it waits for data, the receive raises the connection
\* error, and the association is CLOSED, has set its closed signal and has
\* ended its receive loop after that step.
C25_CancellationPropagates ==
    [][\A p \in Peers : ConnectionLost(p) =>
        /\ assoc'[p].state = "CLOSED"
        /\ assoc'[p].closed
        /\ run'[p].pc = "done"]_vars

-----------------------------------------------------------------------------
(* Properties of the DTLS session *)

\* the two characters are one letter in either case, or the same character
SameLetter(c, d) ==
    \/ c = d
    \/ {c, d} \in {{"a", "A"}, {"b", "B"}, {"c", "C"}, {"d", "D"}, {"e", "E"},
                   {"f", "F"}}

\* the two texts are equal when the case of their letters is ignored
SameIgnoringCase(x, y) ==
    /\ Len(x) = Len(y)
    /\ \A i \in 1..Len(x) : SameLetter(x[i], y[i])

\* C22: a session that is CONNECTED, or whose data pump was started, has
\* completed the handshake, and the fingerprint of the certificate the peer
\* presented is the remote_fingerprint that was set, whatever the case of
\* its letters; so a session whose peer has another fingerprint is never
\* CONNECTED and never starts its pump.
C22_ConnectedIsVerified ==
    (session.state = "CONNECTED" \/ session.pump # "none") =>
        /\ session.encrypted
        /\ session.fingerprint_set
        /\ SameIgnoringCase(certificate_digest(session.peer),
                            session.remote_fingerprint)

\* the session is CONNECTED under a fingerprint that was set in mixed case,
\* and its pump waits for a datagram
C22_ConnectedMixedCase ==
    /\ session.state = "CONNECTED"
    /\ session.pump = "recv"
    /\ session.remote_fingerprint = <<"a", "B", ":", "0", "c">>
    /\ certificate_digest(session.peer) = <<"A", "B", ":", "0", "C">>

\* C23: when connect() has failed (the engine reported an error other than
\* WANT_READ, the fingerprint did not match, or the session was closed
\* while connect() waited for a datagram) the session is CLOSED and its
\* closed signal is set.
C23_FailedConnectCloses ==
    ( /\ session.connect = "raised"
      /\ session.error \in {"DTLS handshake failed", "ConnectionError",
                            "DTLS fingerprint does not match"} )
    => (session.state = "CLOSED" /\ session.closed)

\* the close-notify alerts the session has written to the transport
CloseNotifies ==
    Cardinality({i \in 1..Len(session.written) :
                    session.written[i] = "close_notify"})

\* no coroutine of the session has a step left
SessionAtRest ==
    /\ session.closing = 0
    /\ session.pump \notin {"scheduled", "recv"}
    /\ session.connect \notin {"write", "recv"}

\* C24: after one call of close() and after two, whatever the state of the
\* session was and with or without steps of the data pump in between, the
\* session has written at most one close-notify and, once its coroutines
\* are at rest, its closed signal is set and it is CLOSED.
C24_CloseIdempotent ==
    /\ CloseNotifies <= 1
    /\ (session.closes >= 1 /\ SessionAtRest) =>
            (session.closed /\ session.state = "CLOSED")

-----------------------------------------------------------------------------
(* Properties of the drain of the reassembly buffer *)

\* the chunks the messages were joined of: every chunk handed to the stream
\* carries one byte of user data
Drained(messages) == Len(Concat(messages, 1, Len(messages)))

\* C31: a pop_messages() that yields k >= 1 messages leaves in the buffer, in
\* their order, exactly the buffered chunks that are part of no yielded
\* message, and moves the expected stream sequence number on by k modulo
\* 2^16; chunks behind the second message of one call are kept.
C31_DrainRemovesEmitted ==
    (popped.called /\ Len(popped.messages) >= 1) =>
        /\ inbound.reassembly =
              SubSeq(popped.before.reassembly, Drained(popped.messages) + 1,
                     Len(popped.before.reassembly))
        /\ inbound.sequence_number =
              (popped.before.sequence_number + Len(popped.messages))
                  % SCTP_SEQ_MODULO

\* the same of the calls that yield one message
C31_OneMessageDrained ==
    (popped.called /\ Len(popped.messages) = 1) =>
        /\ inbound.reassembly =
              SubSeq(popped.before.reassembly, Drained(popped.messages) + 1,
                     Len(popped.before.reassembly))
        /\ inbound.sequence_number =
              (popped.before.sequence_number + 1) % SCTP_SEQ_MODULO

-----------------------------------------------------------------------------
(* Properties of the loops of the decoder *)

\* the checksum of a byte string is the one Packet.parse computes of it
ChecksumValid(data) ==
    Len(data) >= 12 /\ data = with_checksum(check_data(data))

\* C32: Packet.parse, decode_params included, comes to an end on every byte
\* string with a valid checksum, also on one in which the length of a
\* chunk or of a parameter is 0 or below 4: the walk moves on at every chunk.
C32_DecoderTerminates ==
    (coded.op = "parse" /\ ChecksumValid(coded.wire)) => coded.status # "no end"

\* the same of the byte strings in which no chunk and no parameter has the
\* length 0: lengths of 1 to 3 move the walk on by 4
C32_ShortLengthsTerminate ==
    (/\ coded.op = "parse"
     /\ coded.wire \in {with_checksum(WireHeader \o pack_all(chunks)) :
            chunks \in SeqsUpTo(RawChunks \ {<<11, 0, 0, 0>>,
                                             <<4, 0, 0, 8, 0, 1, 0, 0>>},
                                MaxCoded)})
        => coded.status # "no end"

-----------------------------------------------------------------------------
(* Properties of the handling of INIT *)

\* what an association keeps of its peer
PeerState(a) == <<a.state, a.remote_verification_tag, a.last_received_tsn>>

\* C33: a server that handles an INIT keeps nothing of it: its state, its
\* remote verification tag and its last received TSN are after the INIT
\* what they were before it, also when the server is ESTABLISHED.
C33_StatelessInit ==
    [][\A p \in Peers : \A d \in Incoming(p) :
        ( /\ is_server[p]
          /\ Decodes(d) /\ HasInit(d) /\ Len(d.chunks) = 1
          /\ d.verification_tag = 0
          /\ Arrives(p, d) )
        => PeerState(assoc'[p]) = PeerState(assoc[p])
    ]_vars

\* the same of the INIT that arrives at an ESTABLISHED server
C33_EstablishedKeepsPeer ==
    [][\A p \in Peers : \A d \in Incoming(p) :
        ( /\ is_server[p] /\ assoc[p].state = "ESTABLISHED"
          /\ Decodes(d) /\ HasInit(d) /\ Len(d.chunks) = 1
          /\ d.verification_tag = 0
          /\ Arrives(p, d) )
        => PeerState(assoc'[p]) = PeerState(assoc[p])
    ]_vars

-----------------------------------------------------------------------------
(* Properties of the flush of the data-channel queue *)

\* this step hands a packet with a DATA chunk of p to the transport
SendsData(p) ==
    /\ Len(net'[Other(p)]) > Len(net[Other(p)])
    /\ \E i \in 1..Len(net'[Other(p)][Len(net'[Other(p)])].chunks) :
          net'[Other(p)][Len(net'[Other(p)])].chunks[i].type = "DATA"

\* C34: what is put on the data-channel queue while the association is not
\* ESTABLISHED is not transmitted, and no stream id is given to its channel,
\* before the association is ESTABLISHED; no DATA chunk is handed to the
\* transport in another state, also not by a flush that was suspended in a
\* transport send when a shutdown began.
C34_FlushGating ==
    [][\A p \in Peers :
        /\ SendsData(p) => assoc[p].state = "ESTABLISHED"
        /\ assoc'[p].allocated # assoc[p].allocated =>
                assoc[p].state = "ESTABLISHED"
    ]_vars

-----------------------------------------------------------------------------
(* Properties of stop() before the handshake has completed *)

\* the receive loop of p is running
Running(p) == run[p].pc \notin {"idle", "scheduled", "done", "crashed"}

\* C35: stop() on an association in COOKIE_WAIT or COOKIE_ECHOED whose peer
\* has its receive loop running raises nothing: it sends its SHUTDOWN and
\* waits for the association to be CLOSED.
C35_StopBeforeEstablished ==
    [][\A p \in Peers :
        ( /\ assoc[p].state \in {"COOKIE_WAIT", "COOKIE_ECHOED"}
          /\ Running(Other(p))
          /\ Stop(p) )
        => /\ stopper'[p].pc = "send"
           /\ SendsTo(Other(p), [Chunk("SHUTDOWN") EXCEPT
                                   !.cumulative_tsn = assoc[p].last_received_tsn])
    ]_vars

\* the same of the association in COOKIE_ECHOED
C35_StopInCookieEchoed ==
    [][\A p \in Peers :
        ( /\ assoc[p].state = "COOKIE_ECHOED"
          /\ Running(Other(p))
          /\ Stop(p) )
        => /\ stopper'[p].pc = "send"
           /\ SendsTo(Other(p), [Chunk("SHUTDOWN") EXCEPT
                                   !.cumulative_tsn = assoc[p].last_received_tsn])
    ]_vars

-----------------------------------------------------------------------------
(* Properties of the transmission of the data-channel queue *)

\* the places of the items put on the data-channel queue so far: the list
\* object and the position in it
Items(a) == {pos \in (1..Len(a.lists)) \X (1..MaxBuffered + MaxSends) :
                pos[2] <= Len(a.lists[pos[1]])}

\* the arguments of the _send that transmits the item at pos
MessageOf(a, pos) ==
    [stream_id |-> a.channels[a.lists[pos[1]][pos[2]].channel].id,
     protocol |-> a.lists[pos[1]][pos[2]].protocol,
     user_data |-> a.lists[pos[1]][pos[2]].user_data]

\* how many of the items put on the queue are transmitted as m is
Queued(a, m) == Cardinality({pos \in Items(a) : MessageOf(a, pos) = m})

\* C36: every message put on the data-channel queue of an ESTABLISHED
\* association is transmitted exactly once, for every interleaving of the
\* flushes: never more often than it was queued, and as often once nothing
\* is left to do.
C36_ExactlyOnce ==
    \A p \in Peers : \A pos \in Items(assoc[p]) :
        /\ Count(assoc[p].sent, MessageOf(assoc[p], pos))
              <= Queued(assoc[p], MessageOf(assoc[p], pos))
        /\ (Quiet /\ BothEstablished) =>
              Count(assoc[p].sent, MessageOf(assoc[p], pos))
                  = Queued(assoc[p], MessageOf(assoc[p], pos))

\* no message is transmitted more often than it was queued
C36_NeverTwice ==
    \A p \in Peers : \A pos \in Items(assoc[p]) :
        Count(assoc[p].sent, MessageOf(assoc[p], pos))
            <= Queued(assoc[p], MessageOf(assoc[p], pos))

\* once nothing is left to do no queued message is left untransmitted
C36_NeverDropped ==
    \A p \in Peers : \A pos \in Items(assoc[p]) :
        (Quiet /\ BothEstablished) =>
            Count(assoc[p].sent, MessageOf(assoc[p], pos)) >= 1

-----------------------------------------------------------------------------
(* Properties of the end of the receive loop *)

\* this step ends the receive loop of p with an exception raised for a
\* packet that was up for the tag check
Stopped(p) ==
    /\ run[p].pc # "crashed"
    /\ run'[p].pc = "crashed"
    /\ last'[p] # "assert"

\* C37: the receive loop ends only when the closed signal is set or the
\* DTLS connection has closed: no packet that passes the checksum and the
\* tag check ends it while the state is not CLOSED, also not a DATA chunk
\* that arrives before an INIT or INIT_ACK has set the last received TSN.
C37_LoopSurvives ==
    [][\A p \in Peers :
        /\ Stopped(p) => assoc[p].state = "CLOSED"
        /\ (run[p].pc # "done" /\ run'[p].pc = "done") =>
                assoc[p].closed \/ dtls_closed[p]
    ]_vars

\* the same of the packets that hold no DATA chunk
C37_NoDataSurvives ==
    [][\A p \in Peers : \A d \in Incoming(p) :
        ( /\ \A i \in 1..Len(d.chunks) : d.chunks[i].type # "DATA"
          /\ Arrives(p, d) )
        => /\ ~Stopped(p)
           /\ (run'[p].pc = "done") => assoc[p].closed \/ dtls_closed[p]
    ]_vars

-----------------------------------------------------------------------------
(* Properties of the stream sequence numbers of _send *)

\* a _send of p on the stream is suspended in the transport send of a chunk
\* that carries stream_seq
Emitting(p, stream_id, stream_seq) ==
    \E k \in 1..Len(tasks[p]) :
        /\ tasks[p][k].pc \in {"alone", "send"}
        /\ tasks[p][k].flush.send.stream_id = stream_id
        /\ tasks[p][k].flush.send.stream_seq = stream_seq

\* C38: the next stream sequence number of a stream moves on only when a
\* _send ends that has handed to the transport at least one DATA chunk with
\* the number before it; a _send of no bytes takes no number.
C38_SeqAccounting ==
    [][\A p \in Peers : \A stream_id \in Streams :
        Get(assoc'[p].outbound_stream_seq, stream_id, 0)
            # Get(assoc[p].outbound_stream_seq, stream_id, 0)
        => /\ Emitting(p, stream_id, Get(assoc[p].outbound_stream_seq, stream_id, 0))
           /\ Get(assoc'[p].outbound_stream_seq, stream_id, 0)
                = seq_plus_one(Get(assoc[p].outbound_stream_seq, stream_id, 0))
    ]_vars

\* once nothing is left to do the peer has delivered every message of at
\* least one byte
C38_LaterDelivered ==
    \A p \in Peers :
        Quiet => \A i \in 1..Len(assoc[p].sent) :
                    assoc[p].sent[i].user_data # <<>> =>
                        Count(ReceivedBy(Other(p)), assoc[p].sent[i]) >= 1

-----------------------------------------------------------------------------
(* Properties of the closed signal *)

\* C39: in every state in which the closed signal of an association is set
\* its state is CLOSED: no chunk handled after the signal was set, such as
\* a COOKIE_ACK behind an ABORT in one packet, takes it to another state.
C39_ClosedIsStable ==
    \A p \in Peers : assoc[p].closed => assoc[p].state = "CLOSED"

\* the closed signal is never cleared
C39_NeverCleared ==
    [][\A p \in Peers : assoc[p].closed => assoc'[p].closed]_vars

-----------------------------------------------------------------------------
(* Properties of the datagrams of the DTLS session *)

\* the last datagram _recv_next took, if it took one that is no DTLS record
TookDatagram == log # <<>> /\ "first_byte" \in DOMAIN log[1]

\* C40: a datagram whose first byte is in the SRTP range is passed to the
\* inbound SRTP session only where that session exists: while connect() is
\* still handshaking it does not make connect() fail and puts nothing on a
\* queue; a datagram whose first byte is in neither range raises nothing,
\* puts nothing on a queue and leaves the receive loop as it was
C40_SrtpAfterKeying ==
    TookDatagram =>
        LET e == log[1] IN
        /\ (datagram_kind(e.first_byte) = "SRTP" /\ e.caller = "connect") =>
                /\ ~e.raised
                /\ ~e.queued
                /\ e.after.connect # "raised"
        /\ datagram_kind(e.first_byte) = "discard" =>
                /\ ~e.raised
                /\ ~e.queued
                /\ e.caller = "__run" =>
                        /\ e.after.state = e.before.state
                        /\ e.after.pump = e.before.pump

\* C40, for the datagrams the receive loop takes once connect() has keyed
\* the session: an SRTP datagram is put on the queue or ends the loop, and
\* a datagram in neither range changes nothing
C40_KeyedSessionTakesSrtp ==
    (TookDatagram /\ log[1].caller = "__run") =>
        LET e == log[1] IN
        /\ e.before.state = "CONNECTED"
        /\ datagram_kind(e.first_byte) = "SRTP" => (e.queued <=> ~e.raised)
        /\ datagram_kind(e.first_byte) = "discard" =>
                ~e.raised /\ ~e.queued /\ e.after.state = e.before.state

\* an SRTP datagram has arrived while connect() was handshaking
C40_SrtpWhileHandshaking ==
    /\ TookDatagram
    /\ log[1].caller = "connect"
    /\ datagram_kind(log[1].first_byte) = "SRTP"

====
